---- MODULE Spec2Model ----
(***************************************************************************)
(* NeuraMaint ML service: the pump failure scoring engine                  *)
(* (ml-service/training.py, ml-service/model.py) and its HTTP boundary     *)
(* (ml-service/app.py).                                                    *)
(*                                                                         *)
(* Numbers are fixed point:                                                *)
(*   sensor values                  in tenths                 V(x)         *)
(*   probabilities and confidences  in 1/10000 of a percent   Pct(x)       *)
(*   anomaly scores                 in hundredths                          *)
(*   normalized features            in 1/6000                 N(x)         *)
(*   contamination                  in thousandths                         *)
(***************************************************************************)
EXTENDS Integers, Sequences, FiniteSets, TLC

VARIABLES
    \* ---- pure scoring harness -------------------------------------------
    reading,      \* the sensor_data dict handed to a scoring call
    env,          \* what the artifact store and sklearn do during the call
    obj,          \* the PumpFailurePredictionModel instance's fields
    result_t,     \* outcome of training.predict_failure(reading)
    result_m,     \* outcome of model.predict_failure_probability(reading)
    \* ---- service ----------------------------------------------------------
    detector,     \* models/pump_failure_model.joblib
    scaler,       \* models/scaler.joblib
    metadata,     \* models/metadata.joblib
    runs,         \* train_model invocations, by run id
    scores,       \* predict_failure invocations, by call id
    queue,        \* executor work queue (FIFO of task ids)
    running,      \* tasks held by executor worker threads
    retrainReqs,  \* POST /api/model/retrain requests
    scoreReqs,    \* POST /api/predicoes requests
    views,        \* last answers of GET /health and GET /api/model/status
    \* ---- training data generation ----------------------------------------
    np_random,    \* state of numpy's global random generator
    trainers,     \* train_model calls followed draw by draw, by call id
    corpus,       \* a _generate_training_data call, pattern by pattern
    pattern       \* the last pattern a pattern generator returned

scoreVars   == <<reading, env, obj, result_t, result_m>>
serviceVars == <<detector, scaler, metadata, runs, scores, queue, running,
                 retrainReqs, scoreReqs, views>>
genVars     == <<corpus, pattern>>
trainVars   == <<np_random, trainers, corpus, pattern>>
vars        == <<reading, env, obj, result_t, result_m,
                 detector, scaler, metadata, runs, scores, queue, running,
                 retrainReqs, scoreReqs, views, np_random, trainers,
                 corpus, pattern>>

----------------------------------------------------------------------------
(* Fixed-point conversions and the bounds of the enumerated inputs *)

V(x)   == x * 10       \* a whole sensor value, in tenths
Pct(x) == x * 10000    \* a whole percentage, in 1/10000 percent
N(x)   == x * 6000     \* a whole normalized feature, in 1/6000

\* Sensor values enumerated, in tenths: -MaxBelowZero .. MaxValue for
\* temperature, -MaxBelowZero .. MaxValue \div 5 for the other kinds
MaxBelowZero == 20
MaxValue     == 1000

\* Anomaly scores enumerated, in hundredths: 5 * k for |k| <= MaxScoreIdx
MaxScoreIdx  == 12

Min(a, b) == IF a <= b THEN a ELSE b
Max(a, b) == IF a >= b THEN a ELSE b

\* float('inf') and float('-inf'), which float() yields for "inf", "-inf" and
\* the JSON literals Infinity and -Infinity: beyond every finite value
Infinity    == MaxValue + 1
NegInfinity == 0 - MaxBelowZero - 1
\* float('nan'): every comparison with it is false
NaN         == MaxValue + 2
IsNaN(value) == value = NaN
IsFinite(value) == NegInfinity < value /\ value < Infinity

\* An artifact file: 0 when it does not exist, k > 0 when it holds the
\* complete dump of run k, -k while run k is writing it
Partial(k) == 0 - k
Exists(file) == file # 0
Complete(file) == file > 0

\* An exception escaping a call, and a normal return
Raise      == [raised |-> TRUE,  value |-> 0]
Return(v)  == [raised |-> FALSE, value |-> v]

----------------------------------------------------------------------------
(* SensorRangeTable *)

SensorTypes == <<"temperatura", "vibracao", "pressao">>
SensorKinds == {"temperatura", "vibracao", "pressao"}

sensor_ranges ==
    [ temperatura |-> [min |-> V(20), max |-> V(80), critical |-> V(90)],
      vibracao    |-> [min |-> 0,           max |-> V(5),  critical |-> V(7)],
      pressao     |-> [min |-> 0,           max |-> V(10), critical |-> V(12)] ]

----------------------------------------------------------------------------
(* Python's round(x, 2) and round(x, 1) on a Pct fixed-point number:        *)
(* nearest multiple of the unit as seen from the double nearest to x.       *)

RECURSIVE PowerOfTwoMod(_, _)
PowerOfTwoMod(k, m) == IF k = 0 THEN 1 % m ELSE (2 * PowerOfTwoMod(k - 1, m)) % m

\* floor(log2(x / Pct(1))) of a positive fixed-point number
RECURSIVE HalvingsToOne(_)
HalvingsToOne(y) == IF y < 2 THEN 0 ELSE 1 + HalvingsToOne(y \div 2)
RECURSIVE DoublingsToOne(_)
DoublingsToOne(x) == IF x >= Pct(1) THEN 0 ELSE 1 + DoublingsToOne(2 * x)
BinaryExponent(x) ==
    IF x >= Pct(1) THEN HalvingsToOne(x \div Pct(1)) ELSE 0 - DoublingsToOne(x)

\* where the double nearest to x / Pct(1) lies: -1 below it, 0 on it, 1 above
\* it (53 significant bits, so the bit of weight 2^(BinaryExponent - 52) is
\* the last one kept)
DoubleError(x) ==
    LET k    == 52 - BinaryExponent(x)
        rest == ((x % Pct(1)) * PowerOfTwoMod(k, Pct(1))) % Pct(1)
    IN  IF rest = 0 THEN 0 ELSE IF 2 * rest < Pct(1) THEN -1 ELSE 1

\* round() of a non-negative number: the nearest multiple of unit; a decimal
\* tie goes the way the double lies, and to the even neighbour when the
\* double is the tie itself
RoundMagnitude(x, unit) ==
    LET q == x \div unit
        r == x % unit
    IN  IF 2 * r < unit THEN q * unit
        ELSE IF 2 * r > unit THEN (q + 1) * unit
        ELSE IF DoubleError(x) < 0 THEN q * unit
        ELSE IF DoubleError(x) > 0 THEN (q + 1) * unit
        ELSE IF q % 2 = 0 THEN q * unit ELSE (q + 1) * unit

RoundTo(x, unit) ==
    IF x < 0 THEN 0 - RoundMagnitude(0 - x, unit) ELSE RoundMagnitude(x, unit)

Round2(x) == RoundTo(x, Pct(1) \div 100)
Round1(x) == RoundTo(x, Pct(1) \div 10)

----------------------------------------------------------------------------
(* training.py: pure helpers.  data = [tipo_sensor, valor, numeric];        *)
(* numeric = FALSE stands for a valor on which float() raises.              *)

\* float(data['valor'])
FloatValor(data) == IF data.numeric THEN Return(data.valor) ELSE Raise

\* max(0, min(cap, (raw_value - min) / (max - min))): min(cap, nan) and
\* min(cap, inf) are cap, and -inf is clamped to 0
ClampNormalized(raw_value, ranges, cap) ==
    IF IsNaN(raw_value) \/ raw_value = Infinity THEN cap
    ELSE IF raw_value = NegInfinity THEN 0
    ELSE Max(0, Min(cap, ((raw_value - ranges.min) * N(1)) \div (ranges.max - ranges.min)))

\* training._create_feature_vector
CreateFeatureVectorT(data) ==
    IF FloatValor(data).raised THEN Raise
    ELSE
      LET value == data.valor
          raw == << IF data.tipo_sensor = "temperatura" THEN value ELSE V(50),
                    IF data.tipo_sensor = "vibracao"    THEN value ELSE 25,
                    IF data.tipo_sensor = "pressao"     THEN value ELSE V(5) >>
          norm(i) ==
              LET r == sensor_ranges[SensorTypes[i]]
              IN  ClampNormalized(raw[i], r, N(25) \div 10)
      IN  Return(raw \o << norm(1), norm(2), norm(3) >>)

\* training._rule_based_prediction with model.py's low-value threshold
RuleBasedLow80T(data) ==
    IF FloatValor(data).raised THEN Raise
    ELSE IF data.tipo_sensor \notin SensorKinds THEN Return(Pct(15))
    ELSE
      LET value == data.valor
          ranges == sensor_ranges[data.tipo_sensor]
      IN  IF value >= ranges.critical THEN Return(Pct(95))
          ELSE IF value > ranges.max
               THEN Return(Pct(70)
                           + (Pct(25) * (value - ranges.max))
                               \div (ranges.critical - ranges.max))
          ELSE IF 10 * value < 8 * ranges.min THEN Return(Pct(60))
          ELSE IF 10 * value > 9 * ranges.max THEN Return(Pct(40))
          ELSE Return(Pct(10))

\* training._rule_based_prediction without the branch at the critical
\* threshold: the interpolation carries on above it
RuleBasedUncappedT(data) ==
    IF FloatValor(data).raised THEN Raise
    ELSE IF data.tipo_sensor \notin SensorKinds THEN Return(Pct(15))
    ELSE
      LET value == data.valor
          ranges == sensor_ranges[data.tipo_sensor]
      IN  IF value > ranges.max
          THEN Return(Pct(70)
                      + (Pct(25) * (value - ranges.max))
                          \div (ranges.critical - ranges.max))
          ELSE IF 10 * value < 6 * ranges.min THEN Return(Pct(60))
          ELSE IF 10 * value > 9 * ranges.max THEN Return(Pct(40))
          ELSE Return(Pct(10))

\* training._rule_based_prediction
RuleBasedPredictionT(data) ==
    IF FloatValor(data).raised THEN Raise
    ELSE IF data.tipo_sensor \notin SensorKinds THEN Return(Pct(15))
    ELSE IF IsNaN(data.valor) THEN Return(Pct(10))
    ELSE
      LET value == data.valor
          ranges == sensor_ranges[data.tipo_sensor]
      IN  IF value >= ranges.critical THEN Return(Pct(95))
          ELSE IF value > ranges.max
               THEN Return(Pct(70)
                           + (Pct(25) * (value - ranges.max))
                               \div (ranges.critical - ranges.max))
          ELSE IF 10 * value < 6 * ranges.min THEN Return(Pct(60))
          ELSE IF 10 * value > 9 * ranges.max THEN Return(Pct(40))
          ELSE Return(Pct(10))

\* Boost without the cap at 100
BoostUncapped(probability, factor) == (probability * factor) \div 100

\* min(100, probability * factor), factor in hundredths
Boost(probability, factor) == Min(Pct(100), (probability * factor) \div 100)

\* training._adjust_probability_by_sensor with the two vibration tests in the
\* other order
AdjustProbabilityElevatedFirst(data, probability) ==
    IF FloatValor(data).raised THEN Raise
    ELSE
      LET value == data.valor
          kind  == data.tipo_sensor
      IN  IF kind = "temperatura" THEN
              IF value > V(85) THEN Return(Boost(probability, 120))
              ELSE IF value < V(15) THEN Return(Boost(probability, 110))
              ELSE Return(probability)
          ELSE IF kind = "vibracao" THEN
              IF value > 45 THEN Return(Boost(probability, 110))
              ELSE IF value > V(6) THEN Return(Boost(probability, 130))
              ELSE Return(probability)
          ELSE IF kind = "pressao" THEN
              IF value > V(11) THEN Return(Boost(probability, 125))
              ELSE IF value < V(1) THEN Return(Boost(probability, 115))
              ELSE Return(probability)
          ELSE Return(probability)

\* training._adjust_probability_by_sensor
AdjustProbabilityBySensor(data, probability) ==
    IF FloatValor(data).raised THEN Raise
    ELSE
      LET value == data.valor
          kind  == data.tipo_sensor
      IN  IF kind = "temperatura" THEN
              IF value > V(85) THEN Return(Boost(probability, 120))
              ELSE IF value < V(15) THEN Return(Boost(probability, 110))
              ELSE Return(probability)
          ELSE IF kind = "vibracao" THEN
              IF value > V(6) THEN Return(Boost(probability, 130))
              ELSE IF value > 45 THEN Return(Boost(probability, 110))
              ELSE Return(probability)
          ELSE IF kind = "pressao" THEN
              IF value > V(11) THEN Return(Boost(probability, 125))
              ELSE IF value < V(1) THEN Return(Boost(probability, 115))
              ELSE Return(probability)
          ELSE Return(probability)

\* (-anomaly_score + 0.5) * 100 is computed on doubles: for these scores (in
\* hundredths) the product is the double next below the decimal result
\* (0.40 gives 9.999999999999998, 0.45 gives 4.999999999999999) ...
ScoresRoundedDown == {40, 45}

\* ... and for these the double above it (0.35 gives 15.000000000000002,
\* -0.05 gives 55.00000000000001); for every other multiple of 0.05 it is the
\* decimal result itself
ScoresRoundedUp == {-5, 35}

\* max(0, min(100, (-anomaly_score + 0.5) * 100)): a product that misses the
\* decimal result is kept one unit of the scale off it, on the side the double
\* lies, so that every comparison and rounding comes out as on the double
ToProbability(anomaly_score) ==
    LET product == (50 - anomaly_score) * Pct(1)
        double  == IF anomaly_score \in ScoresRoundedDown THEN product - 1
                   ELSE IF anomaly_score \in ScoresRoundedUp THEN product + 1
                   ELSE product
    IN  Max(0, Min(Pct(100), double))

\* training.predict_failure, as one call.  m is what the call finds:
\*   m.model_exists, m.scaler_exists : os.path.exists of the two artifacts
\*   m.fault : the step of the model path that raises, or "none"
\*   m.score : what decision_function returns
ModelPath(data, m) ==
    IF ~m.model_exists THEN RuleBasedPredictionT(data)
    ELSE IF m.fault = "load_model" THEN Raise
    ELSE IF ~m.scaler_exists THEN RuleBasedPredictionT(data)
    ELSE IF m.fault = "load_scaler" THEN Raise
    ELSE IF CreateFeatureVectorT(data).raised THEN Raise
    ELSE IF data.tipo_sensor \in SensorKinds /\ ~IsFinite(data.valor)
         THEN Raise   \* scaler.transform: ValueError on the non-finite feature
    ELSE IF m.fault \in {"transform", "decision_function"} THEN Raise
    ELSE LET adjusted == AdjustProbabilityBySensor(data, ToProbability(m.score))
         IN  IF adjusted.raised THEN Raise ELSE Return(Round2(adjusted.value))

\* the except branch of predict_failure: the fallback is called again, unguarded
ExceptBranchT(data) == RuleBasedPredictionT(data)

PredictFailure(data, m) ==
    IF ModelPath(data, m).raised THEN ExceptBranchT(data) ELSE ModelPath(data, m)

\* whether predict_failure answers from the detector (not from the rules)
TakesModelPath(m) ==
    m.model_exists /\ m.scaler_exists /\ m.fault = "none"

----------------------------------------------------------------------------
(* model.py: PumpFailurePredictionModel *)

\* PumpFailurePredictionModel._create_feature_vector with a final else that
\* writes the value of any other kind into the first slot
CreateFeatureVectorElseM(data) ==
    IF FloatValor(data).raised THEN Raise
    ELSE
      LET value == data.valor
          raw == << IF data.tipo_sensor \notin {"vibracao", "pressao"} THEN value ELSE V(25),
                    IF data.tipo_sensor = "vibracao"    THEN value ELSE V(1),
                    IF data.tipo_sensor = "pressao"     THEN value ELSE V(2) >>
          norm(i) ==
              LET r == sensor_ranges[SensorTypes[i]]
              IN  Max(0, Min(N(2), ((raw[i] - r.min) * N(1)) \div (r.max - r.min)))
      IN  Return(raw \o << norm(1), norm(2), norm(3) >>)

\* PumpFailurePredictionModel._create_feature_vector
CreateFeatureVectorM(data) ==
    IF FloatValor(data).raised THEN Raise
    ELSE
      LET value == data.valor
          raw == << IF data.tipo_sensor = "temperatura" THEN value ELSE V(25),
                    IF data.tipo_sensor = "vibracao"    THEN value ELSE V(1),
                    IF data.tipo_sensor = "pressao"     THEN value ELSE V(2) >>
          norm(i) ==
              LET r == sensor_ranges[SensorTypes[i]]
              IN  ClampNormalized(raw[i], r, N(2))
      IN  Return(raw \o << norm(1), norm(2), norm(3) >>)

\* PumpFailurePredictionModel._rule_based_prediction with the interpolation
\* running from critical down to max
RuleBasedFallingM(sensor_type, value) ==
    IF sensor_type \notin SensorKinds THEN Pct(15)
    ELSE
      LET ranges == sensor_ranges[sensor_type]
      IN  IF value >= ranges.critical THEN Pct(95)
          ELSE IF value > ranges.max
               THEN Pct(70) + (Pct(25) * (ranges.critical - value))
                                 \div (ranges.critical - ranges.max)
          ELSE IF 10 * value < 8 * ranges.min THEN Pct(60)
          ELSE IF 10 * value > 9 * ranges.max THEN Pct(40)
          ELSE Pct(10)

\* PumpFailurePredictionModel._rule_based_prediction
RuleBasedPredictionM(sensor_type, value) ==
    IF sensor_type \notin SensorKinds THEN Pct(15)
    ELSE IF IsNaN(value) THEN Pct(10)
    ELSE
      LET ranges == sensor_ranges[sensor_type]
      IN  IF value >= ranges.critical THEN Pct(95)
          ELSE IF value > ranges.max
               THEN Pct(70) + (Pct(25) * (value - ranges.max))
                                 \div (ranges.critical - ranges.max)
          ELSE IF 10 * value < 8 * ranges.min THEN Pct(60)
          ELSE IF 10 * value > 9 * ranges.max THEN Pct(40)
          ELSE Pct(10)

\* PumpFailurePredictionModel._determine_risk_level with the high tier
\* starting at 85
DetermineRiskLevelFrom85(probability) ==
    IF probability >= Pct(85) THEN "alto"
    ELSE IF probability >= Pct(40) THEN "medio"
    ELSE "baixo"

\* PumpFailurePredictionModel._determine_risk_level
DetermineRiskLevel(probability) ==
    IF probability >= Pct(80) THEN "alto"
    ELSE IF probability >= Pct(40) THEN "medio"
    ELSE "baixo"

\* PumpFailurePredictionModel._generate_recommendation with the critical
\* band starting at 70
GenerateRecommendationFrom70(sensor_type, value, probability) ==
    IF probability >= Pct(70) THEN "CRITICO"
    ELSE IF probability >= Pct(40) THEN "MODERADO"
    ELSE "NORMAL"

\* PumpFailurePredictionModel._generate_recommendation: the template chosen
GenerateRecommendation(sensor_type, value, probability) ==
    IF probability >= Pct(90) THEN "CRITICO"
    ELSE IF probability >= Pct(70) THEN "ATENCAO"
    ELSE IF probability >= Pct(40) THEN "MODERADO"
    ELSE "NORMAL"

\* PumpFailurePredictionModel._calculate_confidence
CalculateConfidence(data, probability) ==
    LET value == data.valor
        extreme ==
            /\ data.tipo_sensor \in SensorKinds
            /\ ~IsNaN(value)
            /\ \/ value > sensor_ranges[data.tipo_sensor].critical
               \/ 10 * value < 5 * sensor_ranges[data.tipo_sensor].min
        base1 == IF extreme THEN Pct(85) + Pct(10) ELSE Pct(85)
        base2 == IF probability > Pct(90) \/ probability < Pct(10) THEN base1 + Pct(5)
                 ELSE IF Pct(40) <= probability /\ probability <= Pct(60) THEN base1 - Pct(10)
                 ELSE base1
    IN  Min(Pct(95), Max(Pct(50), base2))

\* the conservative prediction returned by the except branch
ConservativePrediction ==
    [ raised |-> FALSE, probabilidade_falha |-> Pct(15), risco |-> "medio",
      recomendacao |-> "VERIFICACAO", confianca |-> Pct(50) ]

\* PumpFailurePredictionModel.predict_failure_probability.
\* o = the instance's fields [is_trained, model, scaler_fitted];
\* m.fault, m.score as for predict_failure.
PredictFailureProbability(data, o, m) ==
    IF FloatValor(data).raised THEN ConservativePrediction
    ELSE IF o.is_trained /\ o.model
            /\ (~o.scaler_fitted \/ m.fault \in {"transform", "decision_function"}
                    \/ (data.tipo_sensor \in SensorKinds /\ ~IsFinite(data.valor)))
         THEN ConservativePrediction
    ELSE
      LET probability ==
              IF o.is_trained /\ o.model THEN ToProbability(m.score)
              ELSE RuleBasedPredictionM(data.tipo_sensor, data.valor)
      IN  [ raised |-> FALSE,
            probabilidade_falha |-> Round2(probability),
            risco |-> DetermineRiskLevel(probability),
            recomendacao |-> GenerateRecommendation(data.tipo_sensor, data.valor, probability),
            confianca |-> Round1(CalculateConfidence(data, probability)) ]

----------------------------------------------------------------------------
(* The scoring harness: one reading, one state of the artifacts and of the  *)
(* model object, and one call of each scoring implementation on it.         *)

AllKinds == SensorKinds \cup {"fluxo"}

ValuesOf(kind) ==
    IF kind = "temperatura" THEN (0 - MaxBelowZero) .. MaxValue
    ELSE (0 - MaxBelowZero) .. (MaxValue \div 5)

Readings ==
    { [tipo_sensor |-> k, valor |-> v, numeric |-> TRUE] :
          k \in {"temperatura"}, v \in ValuesOf("temperatura") }
    \cup
    { [tipo_sensor |-> k, valor |-> v, numeric |-> TRUE] :
          k \in AllKinds \ {"temperatura"}, v \in ValuesOf("vibracao") }
    \cup
    { [tipo_sensor |-> k, valor |-> 0, numeric |-> FALSE] : k \in AllKinds }

AnomalyScores == { 5 * k : k \in (0 - MaxScoreIdx) .. MaxScoreIdx }

ModelFaults == {"load_model", "load_scaler", "transform", "decision_function"}

Envs ==
    { [model_exists |-> FALSE, scaler_exists |-> FALSE, fault |-> "none", score |-> 0],
      [model_exists |-> TRUE,  scaler_exists |-> FALSE, fault |-> "none", score |-> 0] }
    \cup
    { [model_exists |-> TRUE, scaler_exists |-> TRUE, fault |-> f, score |-> 0] :
          f \in ModelFaults }
    \cup
    { [model_exists |-> TRUE, scaler_exists |-> TRUE, fault |-> "none", score |-> s] :
          s \in AnomalyScores }

\* PumpFailurePredictionModel.__init__ (never initialized)
NewModelObject == [is_trained |-> FALSE, model |-> FALSE, scaler_fitted |-> FALSE]

\* PumpFailurePredictionModel.load_model on object o, with the two files as
\* found: the assignments made before a joblib.load raises stay
LoadModelM(o, model_file, scaler_file) ==
    IF ~Complete(model_file) THEN [raised |-> TRUE, obj |-> o]
    ELSE IF Exists(scaler_file) /\ ~Complete(scaler_file)
         THEN [raised |-> TRUE, obj |-> [o EXCEPT !.model = TRUE]]
    ELSE [raised |-> FALSE,
          obj |-> [is_trained |-> TRUE, model |-> TRUE,
                   scaler_fitted |-> o.scaler_fitted \/ Exists(scaler_file)]]

\* a freshly constructed instance after a load_model that did not raise: its
\* scaler stays unfitted when scaler.joblib was missing, and is_trained is set
\* either way
LoadedModelObject(scaler_file_exists) ==
    LoadModelM(NewModelObject, 1, IF scaler_file_exists THEN 1 ELSE 0).obj

\* _initialize_fallback_model
InitializeFallbackModel(o) == [o EXCEPT !.model = FALSE, !.is_trained = FALSE]

\* the step of _train_initial_model that raises, or "none"
InitializeFaults == {"none", "generate", "fit_transform", "fit", "predict"}

\* PumpFailurePredictionModel.initialize on object o: load_model when the
\* model file exists, _train_initial_model otherwise; every failure ends in
\* _initialize_fallback_model
InitializeM(o, model_file, scaler_file, fault) ==
    IF Exists(model_file)
    THEN LET loaded == LoadModelM(o, model_file, scaler_file)
         IN  IF loaded.raised THEN InitializeFallbackModel(loaded.obj) ELSE loaded.obj
    ELSE IF fault \in {"generate", "fit_transform"} THEN InitializeFallbackModel(o)
    ELSE IF fault \in {"fit", "predict"}
         THEN [InitializeFallbackModel(o) EXCEPT !.scaler_fitted = TRUE]
    ELSE [is_trained |-> TRUE, model |-> TRUE, scaler_fitted |-> TRUE]

\* the states of the files a call may find: missing, complete, truncated
FilesFound == {0, 1, Partial(1)}

\* the objects one initialize or load_model call makes of the objects in S
ObjStep(S) ==
    S \cup { LoadModelM(o, mf, sf).obj : o \in S, mf \in FilesFound, sf \in FilesFound }
      \cup { InitializeM(o, mf[1], mf[2], f) :
                 o \in S, mf \in FilesFound \X FilesFound, f \in InitializeFaults }

\* the objects reachable from the constructor by such calls
ObjStates == ObjStep(ObjStep(ObjStep({NewModelObject})))

NotCalledT == [status |-> "none", value |-> 0]
NotCalledM == [status |-> "none", probabilidade_falha |-> 0, risco |-> "",
               recomendacao |-> "", confianca |-> 0]

OutcomeT(r) ==
    IF r.raised THEN [status |-> "raised", value |-> 0]
    ELSE [status |-> "returned", value |-> r.value]

OutcomeM(r) ==
    [ status |-> "returned", probabilidade_falha |-> r.probabilidade_falha,
      risco |-> r.risco, recomendacao |-> r.recomendacao, confianca |-> r.confianca ]

\* no train_model call is being followed
NoCorpus  == [pc |-> "none", n_samples |-> 0, contamination |-> 0,
              X |-> << >>, returned |-> << >>]
NoPattern == [generator |-> "none", draws |-> << >>, features |-> << >>]

GenerateIdle ==
    /\ corpus = NoCorpus
    /\ pattern = NoPattern

TrainerQuiet ==
    /\ trainers = << >>
    /\ GenerateIdle

TrainerIdle ==
    /\ np_random = 0
    /\ TrainerQuiet

ScoreQuiet ==
    /\ reading = [tipo_sensor |-> "temperatura", valor |-> 0, numeric |-> TRUE]
    /\ env = [model_exists |-> FALSE, scaler_exists |-> FALSE, fault |-> "none", score |-> 0]
    /\ obj = NewModelObject
    /\ result_t = NotCalledT
    /\ result_m = NotCalledM

ScoreIdle ==
    /\ TrainerIdle
    /\ ScoreQuiet

ServiceIdle ==
    /\ detector = 0
    /\ scaler = 0
    /\ metadata = 0
    /\ runs = << >>
    /\ scores = << >>
    /\ queue = << >>
    /\ running = {}
    /\ retrainReqs = << >>
    /\ scoreReqs = << >>
    /\ views = << >>

InitScore ==
    /\ reading \in Readings
    /\ env \in Envs
    /\ obj \in ObjStates
    /\ result_t = NotCalledT
    /\ result_m = NotCalledM
    /\ ServiceIdle
    /\ TrainerIdle

CallPredictFailure ==
    /\ result_t.status = "none"
    /\ result_t' = OutcomeT(PredictFailure(reading, env))
    /\ UNCHANGED <<reading, env, obj, result_m>>
    /\ UNCHANGED serviceVars
    /\ UNCHANGED trainVars

CallPredictFailureProbability ==
    /\ result_m.status = "none"
    /\ result_m' = OutcomeM(PredictFailureProbability(reading, obj, env))
    /\ UNCHANGED <<reading, env, obj, result_t>>
    /\ UNCHANGED serviceVars
    /\ UNCHANGED trainVars

NextScore == CallPredictFailure \/ CallPredictFailureProbability

SpecScore == InitScore /\ [][NextScore]_vars

----------------------------------------------------------------------------
(* The feature vector harness: one reading, and one call of each            *)
(* _create_feature_vector on it; result_t and result_m hold the vectors.    *)

InitVector ==
    /\ reading \in Readings
    /\ env = [model_exists |-> FALSE, scaler_exists |-> FALSE, fault |-> "none", score |-> 0]
    /\ obj = NewModelObject
    /\ result_t = NotCalledT
    /\ result_m = NotCalledT
    /\ ServiceIdle
    /\ TrainerIdle

CallCreateFeatureVectorT ==
    /\ result_t.status = "none"
    /\ result_t' = OutcomeT(CreateFeatureVectorT(reading))
    /\ UNCHANGED <<reading, env, obj, result_m>>
    /\ UNCHANGED serviceVars
    /\ UNCHANGED trainVars

CallCreateFeatureVectorM ==
    /\ result_m.status = "none"
    /\ result_m' = OutcomeT(CreateFeatureVectorM(reading))
    /\ UNCHANGED <<reading, env, obj, result_t>>
    /\ UNCHANGED serviceVars
    /\ UNCHANGED trainVars

NextVector == CallCreateFeatureVectorT \/ CallCreateFeatureVectorM

SpecVector == InitVector /\ [][NextVector]_vars

----------------------------------------------------------------------------
(* Training data generation.  numpy's global generator is one state shared  *)
(* by every caller in the process; it is modelled as a linear congruential  *)
(* generator over RngStates states.  Every np.random call yields a value    *)
(* that is a function of the state it finds and leaves the next state.      *)
(* Raw features are in hundredths, normalized features in 1/6000.           *)

\* np.random.seed(42)
seed == 42

RngStates   == 64
MaxTrainers == 2

\* np.random.seed(s) with the generator in some state
NpRandomSeedKept(state, s) == state

NpRandomSeed(state, s) == s % RngStates

\* one draw of the generator: the value drawn and the generator's next state
NpRandomDraw(state) == [value |-> state, next |-> (5 * state + 3) % RngStates]

\* the values n successive draws yield from a state, and the state they leave
RECURSIVE DrawsFrom(_, _)
DrawsFrom(state, n) ==
    IF n = 0 THEN [values |-> << >>, next |-> state]
    ELSE LET d == NpRandomDraw(state)
             rest == DrawsFrom(d.next, n - 1)
         IN  [values |-> << d.value >> \o rest.values, next |-> rest.next]

\* the order of the sensor kinds in a feature vector
PatternKinds == << "temperatura", "vibracao", "pressao" >>

\* sensor_ranges[sensor_type], in hundredths
RangesOf(sensor_type) ==
    [min      |-> sensor_ranges[sensor_type].min * 10,
     max      |-> sensor_ranges[sensor_type].max * 10,
     critical |-> sensor_ranges[sensor_type].critical * 10]

\* np.random.normal(center, std): center plus z quarters of the range
\* (1.5 std each), z in -NormalSpread .. NormalSpread as the draw gives it
NormalSpread == 3
NormalVariate(value) == (value % (2 * NormalSpread + 1)) - NormalSpread
NpRandomNormal(ranges, z) ==
    (ranges.min + ranges.max) \div 2 + z * ((ranges.max - ranges.min) \div 4)

\* np.random.uniform(low, high) = low + (high - low) * u, with u one of
\* the fractions 1/UniformSteps .. (UniformSteps - 1)/UniformSteps as the
\* draw gives it
UniformSteps == 5
UniformVariate(value) == 1 + (value % (UniformSteps - 1))
NpRandomUniform(low, high, u) == low + ((high - low) * u) \div UniformSteps

\* np.random.random() < tenths / 10
NpRandomRandomBelow(value, tenths) == 10 * value < tenths * RngStates

\* (raw_value - min) / (max - min), clamped to [0, cap]
NormalizedFeature(raw_value, ranges, cap) ==
    Max(0, Min(cap, ((raw_value - ranges.min) * N(1)) \div (ranges.max - ranges.min)))

\* _generate_normal_pattern, z the three gaussian draws
GenerateNormalPattern(z) ==
    LET raw == [i \in 1 .. 3 |->
                  LET ranges == RangesOf(PatternKinds[i])
                  IN  Max(ranges.min, Min(ranges.max, NpRandomNormal(ranges, z[i])))]
    IN  raw \o [i \in 1 .. 3 |->
                  NormalizedFeature(raw[i], RangesOf(PatternKinds[i]), N(1))]

\* the anomalous value of one sensor kind: "high" (random() < 0.7, then
\* random() < 0.8), "low" (< 0.7, then >= 0.8), "elevated" (>= 0.7)
AnomalyValue(ranges, d) ==
    IF d.branch = "high"
    THEN NpRandomUniform((ranges.max * 11) \div 10, ranges.critical, d.u)
    ELSE IF d.branch = "low"
    THEN NpRandomUniform((ranges.min * 2) \div 10, (ranges.min * 7) \div 10, d.u)
    ELSE NpRandomUniform((ranges.max * 85) \div 100, ranges.max, d.u)

\* _generate_anomaly_pattern, d the branch and uniform draw of the three
\* sensor kinds
GenerateAnomalyPattern(d) ==
    LET raw == [i \in 1 .. 3 |-> AnomalyValue(RangesOf(PatternKinds[i]), d[i])]
    IN  raw \o [i \in 1 .. 3 |->
                  NormalizedFeature(raw[i], RangesOf(PatternKinds[i]), N(3))]

\* the three np.random.normal calls of _generate_normal_pattern
NormalPatternCalls == 3
NormalDrawsOf(values) == [i \in 1 .. NormalPatternCalls |-> NormalVariate(values[i])]

\* the np.random calls _generate_anomaly_pattern makes for one sensor kind,
\* given what its first random() returned: random, random, uniform or
\* random, uniform
AnomalyCalls(first) == IF NpRandomRandomBelow(first, 7) THEN 3 ELSE 2

\* the branch taken and the uniform draw, from the calls of one sensor kind
AnomalyDrawOf(values) ==
    IF NpRandomRandomBelow(values[1], 7)
    THEN [branch |-> IF NpRandomRandomBelow(values[2], 8) THEN "high" ELSE "low",
          u |-> UniformVariate(values[3])]
    ELSE [branch |-> "elevated", u |-> UniformVariate(values[2])]

\* the same for the sensor kinds in turn, from the calls of a pattern
RECURSIVE AnomalyDrawsOf(_)
AnomalyDrawsOf(values) ==
    IF values = << >> THEN << >>
    ELSE LET calls == AnomalyCalls(Head(values))
         IN  << AnomalyDrawOf(SubSeq(values, 1, calls)) >>
                 \o AnomalyDrawsOf(SubSeq(values, calls + 1, Len(values)))

\* whether the calls made so far are all the calls of that many sensor kinds
RECURSIVE AnomalyComplete(_, _)
AnomalyComplete(values, kinds) ==
    IF kinds = 0 THEN values = << >>
    ELSE /\ values # << >>
         /\ Len(values) >= AnomalyCalls(Head(values))
         /\ AnomalyComplete(SubSeq(values, AnomalyCalls(Head(values)) + 1, Len(values)),
                            kinds - 1)

\* the calls _generate_anomaly_pattern makes for that many sensor kinds from
\* a state of the generator, and the state they leave
RECURSIVE AnomalyPatternDraws(_, _)
AnomalyPatternDraws(state, kinds) ==
    IF kinds = 0 THEN [values |-> << >>, next |-> state]
    ELSE LET own  == DrawsFrom(state, AnomalyCalls(NpRandomDraw(state).value))
             rest == AnomalyPatternDraws(own.next, kinds - 1)
         IN  [values |-> own.values \o rest.values, next |-> rest.next]

\* the shuffle of np.random.permutation(n): for i from the last index down
\* to the second, entry i is swapped with an entry j among the first i that
\* the value drawn decides.  Shuffled(n, i, value) is the array after the
\* swaps of n down to i.
RECURSIVE Shuffled(_, _, _)
Shuffled(n, i, value) ==
    IF i > n THEN [k \in 1 .. n |-> k]
    ELSE LET arr == Shuffled(n, i + 1, value)
             j   == 1 + (value % i)
         IN  [arr EXCEPT ![i] = arr[j], ![j] = arr[i]]

\* np.random.permutation(n): one call; the indices and the state it leaves
NpRandomPermutation(state, n) ==
    LET d == NpRandomDraw(state)
    IN  [value |-> Shuffled(n, 2, d.value), next |-> d.next]

\* train_model's arguments: n_samples, contamination in thousandths
TrainerArgs ==
    { [n_samples |-> 2, contamination |-> 500], [n_samples |-> 4, contamination |-> 250] }

RECURSIVE PowerOfTwo(_)
PowerOfTwo(k) == IF k = 0 THEN 1 ELSE 2 * PowerOfTwo(k - 1)

\* floor(log2(num / den)) of a positive fraction
RECURSIVE DoublingsTo(_, _)
DoublingsTo(num, den) == IF num >= den THEN 0 ELSE 1 + DoublingsTo(2 * num, den)
Log2Floor(num, den) ==
    IF num >= den THEN HalvingsToOne(num \div den) ELSE 0 - DoublingsTo(num, den)

\* n_samples * contamination on doubles, when the exact product is the
\* integer whole: whether the double product lies below whole.  The double
\* of contamination misses it by short units of 1/1000 of its last bit when
\* it lies below; n_samples times that is rounded away only up to half the
\* spacing of the doubles below whole.
ProductBelow(n_samples, contamination, whole) ==
    LET ex    == Log2Floor(contamination, 1000)
        short == (contamination * PowerOfTwoMod(52 - ex, 1000)) % 1000
        j     == Log2Floor(whole, 1)
        p     == IF whole = PowerOfTwo(j) THEN 1 ELSE 0
    IN  /\ 0 < short /\ short < 500
        /\ 2 * n_samples * short > 1000 * PowerOfTwo(j - ex - p)

\* n_anomalies = int(n_samples * contamination): the product is made on
\* doubles and truncated, so an exact product that is an integer gives one
\* less when the double product falls below it (1250 * 0.172 gives 214)
NAnomalies(n_samples, contamination) ==
    LET whole == (n_samples * contamination) \div 1000
    IN  IF /\ (n_samples * contamination) % 1000 = 0
           /\ whole > 0
           /\ ProductBelow(n_samples, contamination, whole)
        THEN whole - 1
        ELSE whole

\* n_normal = n_samples - n_anomalies
NNormal(n_samples, contamination) == n_samples - NAnomalies(n_samples, contamination)

\* ---- IsolationForest on the corpus -------------------------------------------

\* the anomaly scores a fitted forest gives the vectors of its corpus are
\* sklearn's business: any scores, in ScoreLevels levels, that are equal for
\* equal vectors
ScoreLevels == 2
ScoreSamples(X) ==
    { s \in [DOMAIN X -> 1 .. ScoreLevels] :
          \A a, b \in DOMAIN X : X[a] = X[b] => s[a] = s[b] }

\* the k-th smallest of the scores
OrderStatistic(s, k) ==
    CHOOSE v \in { s[a] : a \in DOMAIN s } :
        /\ Cardinality({a \in DOMAIN s : s[a] < v}) < k
        /\ k <= Cardinality({a \in DOMAIN s : s[a] <= v})

\* offset_ = np.percentile(score_samples(X), 100 * contamination), times
\* 1000: the order statistics around position (n - 1) * contamination,
\* interpolated linearly
Percentile(s, contamination) ==
    LET position == (Len(s) - 1) * contamination
        below    == position \div 1000
        lower    == OrderStatistic(s, below + 1)
        upper    == OrderStatistic(s, Min(below + 2, Len(s)))
    IN  (1000 * lower) + ((position % 1000) * (upper - lower))

\* model.predict(X_scaled): -1 where score_samples - offset_ < 0, else 1
ForestPredict(s, contamination) ==
    [a \in DOMAIN s |-> IF 1000 * s[a] < Percentile(s, contamination) THEN 0 - 1 ELSE 1]

\* what fit and predict can give for a corpus
ForestPredictions(X, contamination) ==
    { ForestPredict(s, contamination) : s \in ScoreSamples(X) }

\* anomaly_count = np.sum(predictions == -1);
\* anomaly_ratio = anomaly_count / len(predictions), in thousandths
AnomalyRatio(predictions) ==
    (Cardinality({a \in DOMAIN predictions : predictions[a] = 0 - 1}) * 1000)
        \div Len(predictions)

Abs(x) == IF x < 0 THEN 0 - x ELSE x

\* max(70.0, min(95.0, (1 - abs(anomaly_ratio - contamination)) * 100))
AccuracyEstimate(anomaly_ratio, contamination) ==
    Max(Pct(70), Min(Pct(95),
        ((1000 - Abs(anomaly_ratio - contamination)) * Pct(100)) \div 1000))

\* ---- train_model called from one thread, np.random call by call --------------

\* what train_model gave back: nothing yet, its success dictionary, its
\* failure dictionary, or an exception
NoResult ==
    [status |-> "none", anomaly_ratio |-> 0, training_samples |-> 0,
     contamination |-> 0, accuracy_estimate |-> 0]
FailureResult == [NoResult EXCEPT !.status = "failed"]
RaisedResult  == [NoResult EXCEPT !.status = "raised"]

NoTrainer ==
    [pc |-> "none", n_samples |-> 0, contamination |-> 0, calls |-> << >>,
     X |-> << >>, indices |-> << >>, predictions |-> << >>, result |-> NoResult]

Active(t) == t.pc \notin {"none", "returned"}

\* the step of train_model that raises
TrainerFaults == {"construct", "fit", "dump"}

\* the generator starts in whatever state the process gave it
InitSeed ==
    /\ reading = [tipo_sensor |-> "temperatura", valor |-> 0, numeric |-> TRUE]
    /\ env = [model_exists |-> FALSE, scaler_exists |-> FALSE, fault |-> "none", score |-> 0]
    /\ obj = NewModelObject
    /\ result_t = NotCalledT
    /\ result_m = NotCalledM
    /\ ServiceIdle
    /\ np_random \in {0, RngStates - 1}
    /\ trainers = [i \in 1 .. MaxTrainers |-> NoTrainer]
    /\ GenerateIdle

\* train_model(n_samples, contamination) is called, after the call before
\* it has returned
TrainerCall ==
    \E i \in DOMAIN trainers, args \in TrainerArgs :
        /\ trainers[i].pc = "none"
        /\ \A h \in DOMAIN trainers : h < i => trainers[h].pc = "returned"
        /\ trainers' = [trainers EXCEPT
               ![i].pc = "seed", ![i].n_samples = args.n_samples,
               ![i].contamination = args.contamination]
        /\ UNCHANGED np_random
        /\ UNCHANGED scoreVars
        /\ UNCHANGED serviceVars
        /\ UNCHANGED genVars

\* PumpFailureTrainer(), outside the try block, then the first statement of
\* _generate_training_data: np.random.seed(42)
TrainerSeed(faults) ==
    \E i \in DOMAIN trainers, f \in (faults \cap {"construct"}) \cup {"none"} :
        /\ trainers[i].pc = "seed"
        /\ IF f = "construct"
           THEN /\ trainers' = [trainers EXCEPT ![i].pc = "returned",
                                                ![i].result = RaisedResult]
                /\ UNCHANGED np_random
           ELSE /\ np_random' = NpRandomSeed(np_random, seed)
                /\ trainers' = [trainers EXCEPT ![i].pc = "generate"]
        /\ UNCHANGED scoreVars
        /\ UNCHANGED serviceVars
        /\ UNCHANGED genVars

\* one np.random call of the two loops of _generate_training_data; the call
\* that completes a pattern appends its feature vector to X
TrainerDraw ==
    \E i \in DOMAIN trainers :
        LET t == trainers[i]
            d == NpRandomDraw(np_random)
            calls == Append(t.calls, d.value)
            normal == Len(t.X) < NNormal(t.n_samples, t.contamination)
            complete == IF normal THEN Len(calls) = NormalPatternCalls
                        ELSE AnomalyComplete(calls, 3)
        IN  /\ t.pc = "generate"
            /\ Len(t.X) < t.n_samples
            /\ np_random' = d.next
            /\ trainers' = [trainers EXCEPT
                   ![i].calls = IF complete THEN << >> ELSE calls,
                   ![i].X = IF ~complete THEN t.X
                            ELSE IF normal
                            THEN Append(t.X, GenerateNormalPattern(NormalDrawsOf(calls)))
                            ELSE Append(t.X, GenerateAnomalyPattern(AnomalyDrawsOf(calls)))]
            /\ UNCHANGED scoreVars
            /\ UNCHANGED serviceVars
            /\ UNCHANGED genVars

\* indices = np.random.permutation(len(X)); return X[indices]
TrainerShuffle ==
    \E i \in DOMAIN trainers :
        LET t == trainers[i]
            p == NpRandomPermutation(np_random, Len(t.X))
        IN  /\ t.pc = "generate"
            /\ Len(t.X) = t.n_samples
            /\ np_random' = p.next
            /\ trainers' = [trainers EXCEPT
                   ![i].pc = "fit",
                   ![i].indices = p.value,
                   ![i].X = [k \in 1 .. Len(t.X) |-> t.X[p.value[k]]]]
            /\ UNCHANGED scoreVars
            /\ UNCHANGED serviceVars
            /\ UNCHANGED genVars

\* IsolationForest(contamination, random_state=42), scaler.fit_transform,
\* model.fit and model.predict.  The forest draws from a generator of its own
\* seeded with 42, never from numpy's global one, so what it predicts is a
\* function of the corpus and of contamination: a call that fits the corpus
\* an earlier call fitted gets the predictions that call got.
TrainerFit(faults) ==
    \E i \in DOMAIN trainers, f \in (faults \cap {"fit"}) \cup {"none"} :
        LET t == trainers[i]
            fitted == { h \in DOMAIN trainers \ {i} :
                            /\ trainers[h].predictions # << >>
                            /\ trainers[h].X = t.X
                            /\ trainers[h].contamination = t.contamination }
        IN  /\ t.pc = "fit"
            /\ IF f = "fit"
               THEN trainers' = [trainers EXCEPT ![i].pc = "returned",
                                                 ![i].result = FailureResult]
               ELSE \E predictions \in ForestPredictions(t.X, t.contamination) :
                        /\ \A h \in fitted : predictions = trainers[h].predictions
                        /\ trainers' = [trainers EXCEPT ![i].pc = "dump_model",
                                                        ![i].predictions = predictions]
            /\ UNCHANGED np_random
            /\ UNCHANGED scoreVars
            /\ UNCHANGED serviceVars
            /\ UNCHANGED genVars

\* joblib.dump opens the file for writing (it exists, truncated), or fails
\* before touching it
TrainerOpen(faults) ==
    \E i \in DOMAIN trainers, f \in (faults \cap {"dump"}) \cup {"none"} :
        LET t == trainers[i]
        IN  /\ t.pc \in {"dump_model", "dump_scaler", "dump_metadata"}
            /\ IF f = "dump"
               THEN /\ trainers' = [trainers EXCEPT ![i].pc = "returned",
                                                    ![i].result = FailureResult]
                    /\ UNCHANGED <<detector, scaler, metadata>>
               ELSE /\ trainers' = [trainers EXCEPT ![i].pc =
                           IF t.pc = "dump_model" THEN "write_model"
                           ELSE IF t.pc = "dump_scaler" THEN "write_scaler"
                           ELSE "write_metadata"]
                    /\ detector' = IF t.pc = "dump_model" THEN Partial(i) ELSE detector
                    /\ scaler'   = IF t.pc = "dump_scaler" THEN Partial(i) ELSE scaler
                    /\ metadata' = IF t.pc = "dump_metadata" THEN Partial(i) ELSE metadata
            /\ UNCHANGED <<runs, scores, queue, running, retrainReqs, scoreReqs, views>>
            /\ UNCHANGED np_random
            /\ UNCHANGED scoreVars
            /\ UNCHANGED genVars

\* joblib.dump finishes the file, or fails half way and leaves it truncated;
\* after the metadata file train_model returns its success dictionary
TrainerWrite(faults) ==
    \E i \in DOMAIN trainers, f \in (faults \cap {"dump"}) \cup {"none"} :
        LET t == trainers[i]
            ratio == AnomalyRatio(t.predictions)
        IN  /\ t.pc \in {"write_model", "write_scaler", "write_metadata"}
            /\ IF f = "dump"
               THEN /\ trainers' = [trainers EXCEPT ![i].pc = "returned",
                                                    ![i].result = FailureResult]
                    /\ UNCHANGED <<detector, scaler, metadata>>
               ELSE /\ detector' = IF t.pc = "write_model" THEN i ELSE detector
                    /\ scaler'   = IF t.pc = "write_scaler" THEN i ELSE scaler
                    /\ metadata' = IF t.pc = "write_metadata" THEN i ELSE metadata
                    /\ trainers' = [trainers EXCEPT
                           ![i].pc = IF t.pc = "write_model" THEN "dump_scaler"
                                     ELSE IF t.pc = "write_scaler" THEN "dump_metadata"
                                     ELSE "returned",
                           ![i].result =
                               IF t.pc # "write_metadata" THEN t.result
                               ELSE [status |-> "success", anomaly_ratio |-> ratio,
                                     training_samples |-> t.n_samples,
                                     contamination |-> t.contamination,
                                     accuracy_estimate |->
                                         AccuracyEstimate(ratio, t.contamination)]]
            /\ UNCHANGED <<runs, scores, queue, running, retrainReqs, scoreReqs, views>>
            /\ UNCHANGED np_random
            /\ UNCHANGED scoreVars
            /\ UNCHANGED genVars

NextSeed ==
    \/ TrainerCall
    \/ TrainerSeed(TrainerFaults)
    \/ TrainerDraw
    \/ TrainerShuffle
    \/ TrainerFit(TrainerFaults)
    \/ TrainerOpen(TrainerFaults)
    \/ TrainerWrite(TrainerFaults)

SpecSeed == InitSeed /\ [][NextSeed]_vars

----------------------------------------------------------------------------
(* One call of a pattern generator, and one call of                         *)
(* _generate_training_data pattern by pattern, from any state of the        *)
(* generator.                                                               *)

CallGenerateNormalPattern ==
    LET d == DrawsFrom(np_random, NormalPatternCalls)
        z == NormalDrawsOf(d.values)
    IN  /\ pattern.generator = "none"
        /\ np_random' = d.next
        /\ pattern' = [generator |-> "normal", draws |-> z,
                       features |-> GenerateNormalPattern(z)]
        /\ UNCHANGED <<trainers, corpus>>
        /\ UNCHANGED scoreVars
        /\ UNCHANGED serviceVars

CallGenerateAnomalyPattern ==
    LET d == AnomalyPatternDraws(np_random, 3)
        branches == AnomalyDrawsOf(d.values)
    IN  /\ pattern.generator = "none"
        /\ np_random' = d.next
        /\ pattern' = [generator |-> "anomaly", draws |-> branches,
                       features |-> GenerateAnomalyPattern(branches)]
        /\ UNCHANGED <<trainers, corpus>>
        /\ UNCHANGED scoreVars
        /\ UNCHANGED serviceVars

InitPattern ==
    /\ ScoreQuiet
    /\ TrainerQuiet
    /\ np_random \in 0 .. RngStates - 1
    /\ ServiceIdle

NextPattern == CallGenerateNormalPattern \/ CallGenerateAnomalyPattern

SpecPattern == InitPattern /\ [][NextPattern]_vars

\* _generate_training_data(trainer, n_samples, contamination), contamination
\* in thousandths
MaxSamples == 4
\* the smallest corpus whose product n_samples * contamination is an integer
\* the double product falls below (as for 1250 samples at 0.172)
LongCorpusArgs == { [n_samples |-> 50, contamination |-> 580] }

GenerateArgs ==
    { [n_samples |-> n, contamination |-> c] :
          n \in 0 .. MaxSamples, c \in {0, 250, 400, 500, 1000} }
    \cup LongCorpusArgs

\* the call, up to the loops: np.random.seed(42)
GenerateCall ==
    \E args \in GenerateArgs :
        /\ corpus.pc = "none"
        /\ np_random' = NpRandomSeed(np_random, seed)
        /\ corpus' = [NoCorpus EXCEPT !.pc = "generate",
                                      !.n_samples = args.n_samples,
                                      !.contamination = args.contamination]
        /\ UNCHANGED <<trainers, pattern>>
        /\ UNCHANGED scoreVars
        /\ UNCHANGED serviceVars

\* for _ in range(n_normal): X.append(_generate_normal_pattern(...))
GenerateNormal ==
    LET d == DrawsFrom(np_random, NormalPatternCalls)
    IN  /\ corpus.pc = "generate"
        /\ Len(corpus.X) < NNormal(corpus.n_samples, corpus.contamination)
        /\ np_random' = d.next
        /\ corpus' = [corpus EXCEPT !.X = Append(@,
                         [anomalous |-> FALSE,
                          features |-> GenerateNormalPattern(NormalDrawsOf(d.values))])]
        /\ UNCHANGED <<trainers, pattern>>
        /\ UNCHANGED scoreVars
        /\ UNCHANGED serviceVars

\* for _ in range(n_anomalies): X.append(_generate_anomaly_pattern(...))
GenerateAnomaly ==
    LET d == AnomalyPatternDraws(np_random, 3)
    IN  /\ corpus.pc = "generate"
        /\ Len(corpus.X) >= NNormal(corpus.n_samples, corpus.contamination)
        /\ Len(corpus.X) < Max(0, NNormal(corpus.n_samples, corpus.contamination))
                              + NAnomalies(corpus.n_samples, corpus.contamination)
        /\ np_random' = d.next
        /\ corpus' = [corpus EXCEPT !.X = Append(@,
                         [anomalous |-> TRUE,
                          features |-> GenerateAnomalyPattern(AnomalyDrawsOf(d.values))])]
        /\ UNCHANGED <<trainers, pattern>>
        /\ UNCHANGED scoreVars
        /\ UNCHANGED serviceVars

\* indices = np.random.permutation(len(X)); return X[indices]
GenerateShuffle ==
    LET p == NpRandomPermutation(np_random, Len(corpus.X))
    IN  /\ corpus.pc = "generate"
        /\ Len(corpus.X) >= Max(0, NNormal(corpus.n_samples, corpus.contamination))
                               + NAnomalies(corpus.n_samples, corpus.contamination)
        /\ np_random' = p.next
        /\ corpus' = [corpus EXCEPT
                         !.pc = "returned",
                         !.returned = [k \in 1 .. Len(corpus.X) |-> corpus.X[p.value[k]]]]
        /\ UNCHANGED <<trainers, pattern>>
        /\ UNCHANGED scoreVars
        /\ UNCHANGED serviceVars

InitGenerate ==
    /\ ScoreQuiet
    /\ TrainerQuiet
    /\ np_random \in 0 .. RngStates - 1
    /\ ServiceIdle

NextGenerate == GenerateCall \/ GenerateNormal \/ GenerateAnomaly \/ GenerateShuffle

SpecGenerate == InitGenerate /\ [][NextGenerate]_vars

----------------------------------------------------------------------------
(* The service: app.py's endpoints, the shared ThreadPoolExecutor, and the  *)
(* three artifact files written by train_model and read by predict_failure  *)
(* and load_model.                                                          *)
(*                                                                          *)
(* An artifact file holds 0 when it does not exist, k > 0 when it holds the *)
(* complete dump of training run k, and -k while run k is writing it (the   *)
(* file exists but joblib.load on it raises).  When two runs write the same *)
(* file at once, it ends as the dump of the run that closes last or as a    *)
(* mix of the bytes of both (Torn).                                         *)

\* ThreadPoolExecutor(max_workers=4)
max_workers == 4

\* retrain and scoring requests the environment sends
MaxRetrain  == 2
MaxScore    == 1
\* retrain requests of the executor-saturation scenario
PoolRetrain == 4

\* a file holding bytes of two dumps: joblib.load on it raises or gives an
\* object made of both
Torn == 0 - (MaxRetrain + PoolRetrain + 1)

\* whether joblib.load of the file succeeds
LoadOutcomes(file) == IF file = Torn THEN BOOLEAN ELSE {Complete(file)}

\* ---- request bodies ------------------------------------------------------

\* POST /api/model/retrain: n_samples is a JSON int, float or string;
\* contamination (thousandths) a JSON number, NaN or string
\* json: "object" when request.get_json() gives a dict (or the request is
\* not JSON and data = {}), "other" when it gives null, a list or a scalar,
\* "unparsable" when it raises
RetrainBody(nt, n, ct, c) ==
    [json |-> "object", n_type |-> nt, n_samples |-> n, c_type |-> ct, contamination |-> c]

ValidRetrainBodies ==
    { RetrainBody("int", 1000, "num", 10), RetrainBody("int", 50000, "num", 200) }

OtherRetrainBodies ==
    { RetrainBody("int", 500, "num", 50),    RetrainBody("int", 50001, "num", 50),
      RetrainBody("float", 2000, "num", 50), RetrainBody("int", 1000, "num", 9),
      RetrainBody("int", 1000, "num", 201),  RetrainBody("int", 1000, "str", 0),
      RetrainBody("int", 1000, "nan", 0) }

\* bodies retrain_model cannot read its parameters from
BrokenRetrainBodies ==
    { [RetrainBody("none", 0, "none", 0) EXCEPT !.json = j] : j \in {"other", "unparsable"} }

\* a request that is not JSON, or a JSON object without the two keys:
\* data.get gives the defaults 10000 and 0.05
DefaultRetrainBodies == { RetrainBody("int", 10000, "num", 50) }

RetrainBodies == DefaultRetrainBodies \cup OtherRetrainBodies \cup BrokenRetrainBodies

\* the parameter checks of retrain_model
NSamplesRejected(body) ==
    body.n_type # "int" \/ body.n_samples < 1000 \/ body.n_samples > 50000

ContaminationRejected(body) ==
    \/ body.c_type \notin {"num", "nan"}
    \/ body.c_type = "num" /\ (body.contamination < 10 \/ body.contamination > 200)

\* POST /api/predicoes
\* shape: "object" when request.get_json() gives a dict (a list or a string
\* behaves as a dict without the fields), "other" when it gives null, a
\* number or a boolean, "unparsable" when it raises
\* overflow: the conversion that raises OverflowError, int(sensor_id) on an
\* infinite number or float(valor) on an integer beyond the doubles, or "none"
ScoreBody(json, fields, sid, num, kind, v, ts) ==
    [ is_json |-> json, shape |-> "object", has_fields |-> fields, sensor_id_ok |-> sid,
      numeric |-> num, tipo_sensor |-> kind, valor |-> v, timestamp_ok |-> ts,
      overflow |-> "none" ]

ValidScoreBodies ==
    { ScoreBody(TRUE, TRUE, TRUE, TRUE, "temperatura", V(95), TRUE) }

OtherScoreBodies ==
    { ScoreBody(FALSE, TRUE, TRUE, TRUE, "temperatura", V(95), TRUE),
      ScoreBody(TRUE, FALSE, TRUE, TRUE, "temperatura", V(95), TRUE),
      ScoreBody(TRUE, TRUE, FALSE, TRUE, "temperatura", V(95), TRUE),
      ScoreBody(TRUE, TRUE, TRUE, FALSE, "temperatura", 0, TRUE),
      ScoreBody(TRUE, TRUE, TRUE, TRUE, "fluxo", V(50), TRUE),
      ScoreBody(TRUE, TRUE, TRUE, TRUE, "temperatura", V(95), FALSE) }

\* JSON requests the handler cannot read the fields from
BrokenScoreBodies ==
    { [ScoreBody(TRUE, FALSE, FALSE, FALSE, "none", 0, FALSE) EXCEPT !.shape = x] :
          x \in {"other", "unparsable"} }

\* sensor_id 1e999 or Infinity; valor an integer such as 10**400
OverflowScoreBodies ==
    { [ScoreBody(TRUE, TRUE, FALSE, TRUE, "temperatura", V(95), TRUE)
           EXCEPT !.overflow = "sensor_id"],
      [ScoreBody(TRUE, TRUE, TRUE, FALSE, "temperatura", 0, TRUE)
           EXCEPT !.overflow = "valor"] }

ScoreBodies ==
    ValidScoreBodies \cup OtherScoreBodies \cup BrokenScoreBodies \cup OverflowScoreBodies

\* the validation of predict_failure_endpoint, test by test: "rejected" is a
\* 400 answer, "error" an exception that only except Exception catches (500)
ScoreValidation(body) ==
    IF ~body.is_json THEN "rejected"
    ELSE IF body.shape # "object" THEN "error"
    ELSE IF ~body.has_fields THEN "rejected"
    ELSE IF body.overflow = "sensor_id" THEN "error"
    ELSE IF ~body.sensor_id_ok THEN "rejected"
    ELSE IF body.overflow = "valor" THEN "error"
    ELSE IF ~body.numeric THEN "rejected"
    ELSE IF body.tipo_sensor \notin SensorKinds THEN "rejected"
    ELSE IF ~body.timestamp_ok THEN "rejected"
    ELSE "accepted"

\* the request is answered 400 by the validation
ScoreBodyRejected(body) == ScoreValidation(body) = "rejected"

\* sensor_data as built by predict_failure_endpoint
SensorData(body) ==
    [tipo_sensor |-> body.tipo_sensor, valor |-> body.valor, numeric |-> body.numeric]

\* what decision_function may return in the service scenarios
ServiceScores == { 0 - 5 * MaxScoreIdx, 0 }

\* ---- records --------------------------------------------------------------

NoBody == [RetrainBody("none", 0, "none", 0) EXCEPT !.json = "none"]
NoRun  == [pc |-> "none", n_samples |-> 0, c_type |-> "none", contamination |-> 0,
           data |-> << >>, outcome |-> "none"]
NoRetrainReq == [state |-> "none", body |-> NoBody, code |-> 0]

NoScoreBody == [ScoreBody(FALSE, FALSE, FALSE, FALSE, "none", 0, FALSE) EXCEPT !.shape = "none"]
NoCall == [pc |-> "none", data |-> SensorData(NoScoreBody), model |-> 0, scaler |-> 0,
           path |-> "none", out |-> NotCalledT]
NoScoreReq == [state |-> "none", body |-> NoScoreBody, code |-> 0, probabilidade_falha |-> 0]

NoView == [endpoint |-> "none", loaded |-> FALSE, trained |-> FALSE, polls |-> 0,
           pc |-> "idle"]

TrainTask(i) == [kind |-> "train", id |-> i]
ScoreTask(j) == [kind |-> "score", id |-> j]

ServiceInit(maxRetrain, maxScore) ==
    /\ detector = 0
    /\ scaler = 0
    /\ metadata = 0
    /\ runs = [i \in 1 .. maxRetrain |-> NoRun]
    /\ scores = [j \in 1 .. maxScore |-> NoCall]
    /\ queue = << >>
    /\ running = {}
    /\ retrainReqs = [i \in 1 .. maxRetrain |-> NoRetrainReq]
    /\ scoreReqs = [j \in 1 .. maxScore |-> NoScoreReq]
    /\ views = NoView

\* ---- the executor ---------------------------------------------------------

\* a worker thread takes the oldest queued task
WorkerTake ==
    /\ queue # << >>
    /\ Cardinality(running) < max_workers
    /\ LET task == Head(queue)
       IN  /\ queue' = Tail(queue)
           /\ running' = running \cup {task}
           /\ IF task.kind = "train"
              THEN /\ runs' = [runs EXCEPT ![task.id].pc = "start"]
                   /\ UNCHANGED scores
              ELSE /\ scores' = [scores EXCEPT ![task.id].pc = "check_model"]
                   /\ UNCHANGED runs
    /\ UNCHANGED <<detector, scaler, metadata, retrainReqs, scoreReqs, views>>
    /\ UNCHANGED scoreVars
    /\ UNCHANGED trainVars

\* ---- POST /api/model/retrain ----------------------------------------------

\* retrain_model up to executor.submit: request.get_json() and data.get,
\* whose exceptions the generic handler answers with 500, the parameter
\* checks, then the task
RetrainRequest(bodies) ==
    \E i \in DOMAIN retrainReqs, body \in bodies :
        /\ retrainReqs[i].state = "none"
        /\ \A h \in DOMAIN retrainReqs : h < i => retrainReqs[h].state # "none"
        /\ IF body.json # "object"
           THEN /\ retrainReqs' = [retrainReqs EXCEPT
                                      ![i] = [state |-> "done", body |-> body, code |-> 500]]
                /\ UNCHANGED <<runs, queue>>
           ELSE IF NSamplesRejected(body) \/ ContaminationRejected(body)
           THEN /\ retrainReqs' = [retrainReqs EXCEPT
                                      ![i] = [state |-> "done", body |-> body, code |-> 400]]
                /\ UNCHANGED <<runs, queue>>
           ELSE /\ retrainReqs' = [retrainReqs EXCEPT
                                      ![i] = [state |-> "waiting", body |-> body, code |-> 0]]
                /\ runs' = [runs EXCEPT ![i] =
                               [pc |-> "queued", n_samples |-> body.n_samples,
                                c_type |-> body.c_type, contamination |-> body.contamination,
                                data |-> << >>, outcome |-> "none"]]
                /\ queue' = Append(queue, TrainTask(i))
        /\ UNCHANGED <<detector, scaler, metadata, scores, running, scoreReqs, views>>
        /\ UNCHANGED scoreVars
        /\ UNCHANGED trainVars

\* future.result returned or re-raised what train_model raised: 200 on
\* success, 500 on a failure result; an exception is answered by the handlers
\* of retrain_model, 408 when it is a TimeoutError (the constructor's
\* os.makedirs timing out), 500 otherwise
RetrainRespond ==
    \E i \in DOMAIN retrainReqs :
        /\ retrainReqs[i].state = "waiting"
        /\ runs[i].pc = "returned"
        /\ retrainReqs' = [retrainReqs EXCEPT
               ![i].state = "done",
               ![i].code = IF runs[i].outcome = "success" THEN 200
                           ELSE IF runs[i].outcome = "raised_timeout" THEN 408
                           ELSE 500]
        /\ UNCHANGED <<detector, scaler, metadata, runs, scores, queue, running,
                       scoreReqs, views>>
        /\ UNCHANGED scoreVars
        /\ UNCHANGED trainVars

\* future.result(timeout=30) gave up.  concurrent.futures.TimeoutError is the
\* builtin TimeoutError from Python 3.11 on (408); before that the generic
\* handler answers 500.  The task itself is not cancelled.
RetrainTimeout ==
    \E i \in DOMAIN retrainReqs, code \in {408, 500} :
        /\ retrainReqs[i].state = "waiting"
        /\ runs[i].pc # "returned"
        /\ retrainReqs' = [retrainReqs EXCEPT ![i].state = "timed_out", ![i].code = code]
        /\ UNCHANGED <<detector, scaler, metadata, runs, scores, queue, running,
                       scoreReqs, views>>
        /\ UNCHANGED scoreVars
        /\ UNCHANGED trainVars

\* ---- train_model, step by step ---------------------------------------------

TrainReturn(i, outcome) ==
    /\ runs' = [runs EXCEPT ![i].pc = "returned", ![i].outcome = outcome]
    /\ running' = running \ {TrainTask(i)}

\* PumpFailureTrainer(), then _generate_training_data up to its loops:
\* np.random.seed(42) on the generator every thread shares, and
\* int(n_samples * contamination).  The constructor runs outside the try
\* block, so its failure leaves train_model as an exception, an OSError
\* ("construct") or the TimeoutError among them ("construct_timeout"); a NaN
\* contamination fails in int(), after the seeding.
TrainSeed(faults) ==
    \E i \in DOMAIN runs,
       f \in (faults \cap {"construct", "construct_timeout"}) \cup {"none"} :
        /\ runs[i].pc = "start"
        /\ IF f # "none"
           THEN /\ TrainReturn(i, IF f = "construct" THEN "raised" ELSE "raised_timeout")
                /\ UNCHANGED np_random
           ELSE /\ np_random' = NpRandomSeed(np_random, seed)
                /\ IF runs[i].c_type = "nan"
                   THEN TrainReturn(i, "failed")
                   ELSE /\ runs' = [runs EXCEPT ![i].pc = "generate"]
                        /\ UNCHANGED running
        /\ UNCHANGED <<detector, scaler, metadata, scores, queue, retrainReqs,
                       scoreReqs, views>>
        /\ UNCHANGED scoreVars
        /\ UNCHANGED <<trainers, corpus, pattern>>

\* the np.random calls one run makes after the seed (thousands in the code),
\* any two of which another thread's calls can fall between
TrainCalls == 2

\* one np.random call of the loops and the permutation of
\* _generate_training_data: the run's corpus is what the shared generator
\* yields at each of its calls, in whatever state the other runs left it
TrainDraw(faults) ==
    \E i \in DOMAIN runs, f \in (faults \cap {"generate"}) \cup {"none"} :
        /\ runs[i].pc = "generate"
        /\ IF f = "generate"
           THEN /\ TrainReturn(i, "failed")
                /\ UNCHANGED np_random
           ELSE /\ np_random' = NpRandomDraw(np_random).next
                /\ runs' = [runs EXCEPT
                       ![i].data = Append(@, NpRandomDraw(np_random).value),
                       ![i].pc = IF Len(runs[i].data) + 1 = TrainCalls THEN "fit"
                                 ELSE "generate"]
                /\ UNCHANGED running
        /\ UNCHANGED <<detector, scaler, metadata, scores, queue, retrainReqs,
                       scoreReqs, views>>
        /\ UNCHANGED scoreVars
        /\ UNCHANGED <<trainers, corpus, pattern>>

\* IsolationForest(random_state=42), scaler.fit_transform, model.fit and
\* model.predict on the corpus: nothing outside the run is read or written
TrainCompute(faults) ==
    \E i \in DOMAIN runs, f \in (faults \cap {"fit"}) \cup {"none"} :
        /\ runs[i].pc = "fit"
        /\ IF f = "fit"
           THEN TrainReturn(i, "failed")
           ELSE /\ runs' = [runs EXCEPT ![i].pc = "dump_model"]
                /\ UNCHANGED running
        /\ UNCHANGED <<detector, scaler, metadata, scores, queue, retrainReqs,
                       scoreReqs, views>>
        /\ UNCHANGED scoreVars
        /\ UNCHANGED trainVars

\* joblib.dump opens the file for writing (it exists, truncated), or fails
\* before touching it
TrainOpen(faults) ==
    \E i \in DOMAIN runs, f \in (faults \cap {"dump"}) \cup {"none"} :
        /\ runs[i].pc \in {"dump_model", "dump_scaler", "dump_metadata"}
        /\ IF f = "dump"
           THEN /\ TrainReturn(i, "failed")
                /\ UNCHANGED <<detector, scaler, metadata>>
           ELSE /\ runs' = [runs EXCEPT ![i].pc =
                       IF runs[i].pc = "dump_model" THEN "write_model"
                       ELSE IF runs[i].pc = "dump_scaler" THEN "write_scaler"
                       ELSE "write_metadata"]
                /\ detector' = IF runs[i].pc = "dump_model" THEN Partial(i) ELSE detector
                /\ scaler'   = IF runs[i].pc = "dump_scaler" THEN Partial(i) ELSE scaler
                /\ metadata' = IF runs[i].pc = "dump_metadata" THEN Partial(i) ELSE metadata
                /\ UNCHANGED running
        /\ UNCHANGED <<scores, queue, retrainReqs, scoreReqs, views>>
        /\ UNCHANGED scoreVars
        /\ UNCHANGED trainVars

\* what run i leaves in a file it finishes writing: its dump, or, when
\* another run opened or wrote the file meanwhile, possibly a mix of both
Written(i, file) ==
    IF file # Partial(i) \/ \E h \in DOMAIN runs \ {i} : runs[h].pc = runs[i].pc
    THEN {i, Torn}
    ELSE {i}

\* joblib.dump finishes the file, or fails half way and leaves it truncated;
\* after the metadata file train_model returns its success result
TrainWrite(faults) ==
    \E i \in DOMAIN runs, f \in (faults \cap {"dump"}) \cup {"none"} :
        /\ runs[i].pc \in {"write_model", "write_scaler", "write_metadata"}
        /\ IF f = "dump"
           THEN /\ TrainReturn(i, "failed")
                /\ UNCHANGED <<detector, scaler, metadata>>
           ELSE /\ IF runs[i].pc = "write_model"
                   THEN detector' \in Written(i, detector) ELSE UNCHANGED detector
                /\ IF runs[i].pc = "write_scaler"
                   THEN scaler' \in Written(i, scaler) ELSE UNCHANGED scaler
                /\ IF runs[i].pc = "write_metadata"
                   THEN metadata' \in Written(i, metadata) ELSE UNCHANGED metadata
                /\ IF runs[i].pc = "write_metadata"
                   THEN TrainReturn(i, "success")
                   ELSE /\ runs' = [runs EXCEPT ![i].pc =
                               IF runs[i].pc = "write_model" THEN "dump_scaler"
                               ELSE "dump_metadata"]
                        /\ UNCHANGED running
        /\ UNCHANGED <<scores, queue, retrainReqs, scoreReqs, views>>
        /\ UNCHANGED scoreVars
        /\ UNCHANGED trainVars

\* ---- POST /api/predicoes ---------------------------------------------------

\* predict_failure_endpoint up to executor.submit: the is_json test,
\* request.get_json() and the field lookups, whose exceptions the generic
\* handler answers with 500, the validation, then the task
ScoreRequest(bodies) ==
    \E j \in DOMAIN scoreReqs, body \in bodies :
        /\ scoreReqs[j].state = "none"
        /\ \A h \in DOMAIN scoreReqs : h < j => scoreReqs[h].state # "none"
        /\ IF ScoreValidation(body) = "error"
           THEN /\ scoreReqs' = [scoreReqs EXCEPT ![j] =
                       [state |-> "done", body |-> body, code |-> 500,
                        probabilidade_falha |-> 0]]
                /\ UNCHANGED <<scores, queue>>
           ELSE IF ScoreBodyRejected(body)
           THEN /\ scoreReqs' = [scoreReqs EXCEPT ![j] =
                       [state |-> "done", body |-> body, code |-> 400,
                        probabilidade_falha |-> 0]]
                /\ UNCHANGED <<scores, queue>>
           ELSE /\ scoreReqs' = [scoreReqs EXCEPT ![j] =
                       [state |-> "waiting", body |-> body, code |-> 0,
                        probabilidade_falha |-> 0]]
                /\ scores' = [scores EXCEPT ![j] =
                       [NoCall EXCEPT !.pc = "queued", !.data = SensorData(body)]]
                /\ queue' = Append(queue, ScoreTask(j))
        /\ UNCHANGED <<detector, scaler, metadata, runs, running, retrainReqs, views>>
        /\ UNCHANGED scoreVars
        /\ UNCHANGED trainVars

\* future.result returned the probability (200), or re-raised what
\* predict_failure raised (ValueError: 400)
ScoreRespond ==
    \E j \in DOMAIN scoreReqs :
        /\ scoreReqs[j].state = "waiting"
        /\ scores[j].pc = "returned"
        /\ scoreReqs' = [scoreReqs EXCEPT
               ![j].state = "done",
               ![j].code = IF scores[j].out.status = "returned" THEN 200 ELSE 400,
               ![j].probabilidade_falha = scores[j].out.value]
        /\ UNCHANGED <<detector, scaler, metadata, runs, scores, queue, running,
                       retrainReqs, views>>
        /\ UNCHANGED scoreVars
        /\ UNCHANGED trainVars

\* future.result(timeout=1.8) gave up (408, or 500 before Python 3.11); the
\* task stays with the executor
ScoreTimeout ==
    \E j \in DOMAIN scoreReqs, code \in {408, 500} :
        /\ scoreReqs[j].state = "waiting"
        /\ scores[j].pc # "returned"
        /\ scoreReqs' = [scoreReqs EXCEPT ![j].state = "timed_out", ![j].code = code]
        /\ UNCHANGED <<detector, scaler, metadata, runs, scores, queue, running,
                       retrainReqs, views>>
        /\ UNCHANGED scoreVars
        /\ UNCHANGED trainVars

\* ---- predict_failure, step by step -----------------------------------------

\* the call ends with what predict_failure does when it finds m
ScoreReturn(j, m) ==
    /\ scores' = [scores EXCEPT
           ![j].pc = "returned",
           ![j].path = IF TakesModelPath(m) THEN "model" ELSE "rules",
           ![j].out = OutcomeT(PredictFailure(scores[j].data, m))]
    /\ running' = running \ {ScoreTask(j)}

Found(model_exists, scaler_exists, fault, score) ==
    [model_exists |-> model_exists, scaler_exists |-> scaler_exists,
     fault |-> fault, score |-> score]

\* os.path.exists(model_path)
ScoreCheckModel ==
    \E j \in DOMAIN scores :
        /\ scores[j].pc = "check_model"
        /\ IF Exists(detector)
           THEN /\ scores' = [scores EXCEPT ![j].pc = "load_model"]
                /\ UNCHANGED running
           ELSE ScoreReturn(j, Found(FALSE, FALSE, "none", 0))
        /\ UNCHANGED <<detector, scaler, metadata, runs, queue, retrainReqs,
                       scoreReqs, views>>
        /\ UNCHANGED scoreVars
        /\ UNCHANGED trainVars

\* model = joblib.load(model_path)
ScoreLoadModel ==
    \E j \in DOMAIN scores, ok \in LoadOutcomes(detector) :
        /\ scores[j].pc = "load_model"
        /\ IF ok
           THEN /\ scores' = [scores EXCEPT ![j].pc = "check_scaler", ![j].model = detector]
                /\ UNCHANGED running
           ELSE ScoreReturn(j, Found(TRUE, Exists(scaler), "load_model", 0))
        /\ UNCHANGED <<detector, scaler, metadata, runs, queue, retrainReqs,
                       scoreReqs, views>>
        /\ UNCHANGED scoreVars
        /\ UNCHANGED trainVars

\* os.path.exists(scaler_path)
ScoreCheckScaler ==
    \E j \in DOMAIN scores :
        /\ scores[j].pc = "check_scaler"
        /\ IF Exists(scaler)
           THEN /\ scores' = [scores EXCEPT ![j].pc = "load_scaler"]
                /\ UNCHANGED running
           ELSE ScoreReturn(j, Found(TRUE, FALSE, "none", 0))
        /\ UNCHANGED <<detector, scaler, metadata, runs, queue, retrainReqs,
                       scoreReqs, views>>
        /\ UNCHANGED scoreVars
        /\ UNCHANGED trainVars

\* scaler = joblib.load(scaler_path), then the feature vector, the scaling,
\* the decision function and the calibration, which touch no shared state
ScoreLoadScaler(anomaly_scores) ==
    \E j \in DOMAIN scores, s \in anomaly_scores, ok \in LoadOutcomes(scaler) :
        /\ scores[j].pc = "load_scaler"
        /\ IF ok
           THEN /\ scores' = [scores EXCEPT
                       ![j].pc = "returned",
                       ![j].scaler = scaler,
                       ![j].path = IF ModelPath(scores[j].data,
                                                Found(TRUE, TRUE, "none", s)).raised
                                   THEN "rules" ELSE "model",
                       ![j].out = OutcomeT(PredictFailure(scores[j].data,
                                                          Found(TRUE, TRUE, "none", s)))]
                /\ running' = running \ {ScoreTask(j)}
           ELSE ScoreReturn(j, Found(TRUE, TRUE, "load_scaler", 0))
        /\ UNCHANGED <<detector, scaler, metadata, runs, queue, retrainReqs,
                       scoreReqs, views>>
        /\ UNCHANGED scoreVars
        /\ UNCHANGED trainVars

\* ---- the status views -------------------------------------------------------

\* ml_model = PumpFailurePredictionModel() at import; nothing initializes it
ml_model == NewModelObject

\* PumpFailurePredictionModel.get_model_status
GetModelStatusM(o) == [loaded |-> o.model, trained |-> o.is_trained]

\* training.load_model called with nothing else running: loaded when the
\* detector file exists and it and the metadata file (if any) can be read;
\* the scaler is only looked for
LoadModel ==
    IF ~Exists(detector) THEN [loaded |-> FALSE, scaler_available |-> FALSE, metadata |-> 0]
    ELSE IF ~Complete(detector) \/ (Exists(metadata) /\ ~Complete(metadata))
         THEN [loaded |-> FALSE, scaler_available |-> FALSE, metadata |-> 0]
    ELSE [loaded |-> TRUE, scaler_available |-> Exists(scaler), metadata |-> metadata]

\* GET /health
HealthView ==
    [views EXCEPT !.endpoint = "health",
                  !.loaded = GetModelStatusM(ml_model).loaded,
                  !.trained = GetModelStatusM(ml_model).trained,
                  !.polls = 1 - @]

\* GET /api/model/status answers from what load_model returned
StatusView(loaded) ==
    [endpoint |-> "status", loaded |-> loaded, trained |-> loaded,
     polls |-> 1 - views.polls, pc |-> "idle"]

HealthCheck ==
    /\ views' = HealthView
    /\ UNCHANGED <<detector, scaler, metadata, runs, scores, queue, running,
                   retrainReqs, scoreReqs>>
    /\ UNCHANGED scoreVars
    /\ UNCHANGED trainVars

\* get_model_status calls load_model: os.path.exists(model_path)
GetModelStatus ==
    /\ views.pc = "idle"
    /\ views' = IF Exists(detector) THEN [views EXCEPT !.pc = "load_model"]
                ELSE StatusView(FALSE)
    /\ UNCHANGED <<detector, scaler, metadata, runs, scores, queue, running,
                   retrainReqs, scoreReqs>>
    /\ UNCHANGED scoreVars
    /\ UNCHANGED trainVars

\* load_model: model = joblib.load(model_path)
StatusLoadModel ==
    \E ok \in LoadOutcomes(detector) :
        /\ views.pc = "load_model"
        /\ views' = IF ok THEN [views EXCEPT !.pc = "check_metadata"]
                    ELSE StatusView(FALSE)
        /\ UNCHANGED <<detector, scaler, metadata, runs, scores, queue, running,
                       retrainReqs, scoreReqs>>
        /\ UNCHANGED scoreVars
        /\ UNCHANGED trainVars

\* load_model: os.path.exists(metadata_path)
StatusCheckMetadata ==
    /\ views.pc = "check_metadata"
    /\ views' = [views EXCEPT !.pc = IF Exists(metadata) THEN "load_metadata"
                                     ELSE "check_scaler"]
    /\ UNCHANGED <<detector, scaler, metadata, runs, scores, queue, running,
                   retrainReqs, scoreReqs>>
    /\ UNCHANGED scoreVars
    /\ UNCHANGED trainVars

\* load_model: metadata = joblib.load(metadata_path)
StatusLoadMetadata ==
    \E ok \in LoadOutcomes(metadata) :
        /\ views.pc = "load_metadata"
        /\ views' = IF ok THEN [views EXCEPT !.pc = "check_scaler"]
                    ELSE StatusView(FALSE)
        /\ UNCHANGED <<detector, scaler, metadata, runs, scores, queue, running,
                       retrainReqs, scoreReqs>>
        /\ UNCHANGED scoreVars
        /\ UNCHANGED trainVars

\* load_model: os.path.exists(scaler_path), which only feeds
\* scaler_available, and the loaded result the handler answers from
StatusCheckScaler ==
    /\ views.pc = "check_scaler"
    /\ views' = StatusView(TRUE)
    /\ UNCHANGED <<detector, scaler, metadata, runs, scores, queue, running,
                   retrainReqs, scoreReqs>>
    /\ UNCHANGED scoreVars
    /\ UNCHANGED trainVars

\* what a predict_failure call entered now, with nothing else running, finds
\* (a torn file taken as one joblib.load raises on)
StoreNow ==
    Found(Exists(detector), Exists(scaler),
          IF Exists(detector) /\ ~Complete(detector) THEN "load_model"
          ELSE IF Exists(scaler) /\ ~Complete(scaler) THEN "load_scaler"
          ELSE "none", 0)

\* ---- specifications ----------------------------------------------------------

TrainFaults == {"construct", "construct_timeout", "generate", "fit", "dump"}

\* a fresh service that gets one retrain request and one scoring request
FreshRetrain == 1

Init == ScoreIdle /\ ServiceInit(FreshRetrain, MaxScore)

Next ==
    \/ RetrainRequest(RetrainBodies)
    \/ RetrainRespond
    \/ RetrainTimeout
    \/ WorkerTake
    \/ TrainSeed(TrainFaults)
    \/ TrainDraw(TrainFaults)
    \/ TrainCompute(TrainFaults)
    \/ TrainOpen(TrainFaults)
    \/ TrainWrite(TrainFaults)
    \/ ScoreRequest(ScoreBodies)
    \/ ScoreRespond
    \/ ScoreTimeout
    \/ ScoreCheckModel
    \/ ScoreLoadModel
    \/ ScoreCheckScaler
    \/ ScoreLoadScaler(ServiceScores)

Spec == Init /\ [][Next]_vars

\* a fresh service under retrain requests alone: two training runs side by side
InitRetrain == ScoreIdle /\ ServiceInit(MaxRetrain, 0)

NextRetrain ==
    \/ RetrainRequest(RetrainBodies)
    \/ RetrainRespond
    \/ RetrainTimeout
    \/ WorkerTake
    \/ TrainSeed(TrainFaults)
    \/ TrainDraw(TrainFaults)
    \/ TrainCompute(TrainFaults)
    \/ TrainOpen(TrainFaults)
    \/ TrainWrite(TrainFaults)

SpecRetrain == InitRetrain /\ [][NextRetrain]_vars

\* the harness variables after one train_model run on its own
ScoreIdleAfterRun ==
    /\ ScoreQuiet
    /\ TrainerQuiet
    /\ np_random = DrawsFrom(NpRandomSeed(0, seed), TrainCalls).next

\* the run record of a train_model run that succeeded on its own
LoneRun(body) ==
    [pc |-> "returned", n_samples |-> body.n_samples, c_type |-> body.c_type,
     contamination |-> body.contamination,
     data |-> DrawsFrom(NpRandomSeed(0, seed), TrainCalls).values,
     outcome |-> "success"]

\* the service after an earlier retrain request (1) has succeeded: a complete
\* artifact set of run 1 is in place
InitTrained ==
    /\ ScoreIdleAfterRun
    /\ detector = 1
    /\ scaler = 1
    /\ metadata = 1
    /\ \E body \in ValidRetrainBodies :
          /\ runs = [i \in 1 .. MaxRetrain |->
                        IF i = 1
                        THEN LoneRun(body)
                        ELSE NoRun]
          /\ retrainReqs = [i \in 1 .. MaxRetrain |->
                        IF i = 1 THEN [state |-> "done", body |-> body, code |-> 200]
                        ELSE NoRetrainReq]
    /\ scores = [j \in 1 .. MaxScore |-> NoCall]
    /\ queue = << >>
    /\ running = {}
    /\ scoreReqs = [j \in 1 .. MaxScore |-> NoScoreReq]
    /\ views = NoView

SpecReplace == InitTrained /\ [][Next]_vars

\* the executor under a burst of retrain requests with the largest valid
\* parameters and no faults: all workers but one are held by training runs
\* that have come, one after the other, as far as their last dump; the next
\* retrain request and a scoring request are still to arrive
PoolRetrainBodies == { RetrainBody("int", 50000, "num", 200) }

PoolRun(body) ==
    [pc |-> "write_metadata", n_samples |-> body.n_samples, c_type |-> body.c_type,
     contamination |-> body.contamination,
     data |-> DrawsFrom(NpRandomSeed(0, seed), TrainCalls).values,
     outcome |-> "none"]

InitPool ==
    /\ ScoreIdleAfterRun
    /\ detector = max_workers - 1
    /\ scaler = max_workers - 1
    /\ metadata = Partial(max_workers - 1)
    /\ \E body \in PoolRetrainBodies :
          /\ runs = [i \in 1 .. PoolRetrain |->
                        IF i < max_workers THEN PoolRun(body) ELSE NoRun]
          /\ retrainReqs = [i \in 1 .. PoolRetrain |->
                        IF i < max_workers
                        THEN [state |-> "waiting", body |-> body, code |-> 0]
                        ELSE NoRetrainReq]
    /\ scores = [j \in 1 .. MaxScore |-> NoCall]
    /\ queue = << >>
    /\ running = { TrainTask(i) : i \in 1 .. max_workers - 1 }
    /\ scoreReqs = [j \in 1 .. MaxScore |-> NoScoreReq]
    /\ views = NoView

NextPool ==
    \/ RetrainRequest(PoolRetrainBodies)
    \/ RetrainRespond
    \/ RetrainTimeout
    \/ WorkerTake
    \/ TrainSeed({})
    \/ TrainDraw({})
    \/ TrainCompute({})
    \/ TrainOpen({})
    \/ TrainWrite({})
    \/ ScoreRequest(ValidScoreBodies)
    \/ ScoreRespond
    \/ ScoreTimeout
    \/ ScoreCheckModel
    \/ ScoreLoadModel
    \/ ScoreCheckScaler
    \/ ScoreLoadScaler(ServiceScores)

SpecPool == InitPool /\ [][NextPool]_vars

\* the status endpoints polled while retrains run (no scoring requests)
NextStatus ==
    \/ RetrainRequest(DefaultRetrainBodies)
    \/ RetrainRespond
    \/ RetrainTimeout
    \/ WorkerTake
    \/ TrainSeed(TrainFaults)
    \/ TrainDraw(TrainFaults)
    \/ TrainCompute(TrainFaults)
    \/ TrainOpen(TrainFaults)
    \/ TrainWrite(TrainFaults)
    \/ HealthCheck
    \/ GetModelStatus
    \/ StatusLoadModel
    \/ StatusCheckMetadata
    \/ StatusLoadMetadata
    \/ StatusCheckScaler

SpecStatus == InitRetrain /\ [][NextStatus]_vars

\* the boundary under scoring requests alone: the artifact set of one
\* successful training run is in place and no retrain is requested
BoundaryScore == 2

\* valor such as "inf", "-inf" or "nan": float() accepts it
NonFiniteScoreBodies ==
    { ScoreBody(TRUE, TRUE, TRUE, TRUE, "temperatura", v, TRUE) :
          v \in {Infinity, NegInfinity, NaN} }

InitBoundary ==
    /\ ScoreIdleAfterRun
    /\ detector = 1
    /\ scaler = 1
    /\ metadata = 1
    /\ \E body \in ValidRetrainBodies :
          /\ runs = << LoneRun(body) >>
          /\ retrainReqs = << [state |-> "done", body |-> body, code |-> 200] >>
    /\ scores = [j \in 1 .. BoundaryScore |-> NoCall]
    /\ queue = << >>
    /\ running = {}
    /\ scoreReqs = [j \in 1 .. BoundaryScore |-> NoScoreReq]
    /\ views = NoView

NextBoundary ==
    \/ ScoreRequest(ScoreBodies \cup NonFiniteScoreBodies)
    \/ ScoreRespond
    \/ ScoreTimeout
    \/ WorkerTake
    \/ ScoreCheckModel
    \/ ScoreLoadModel
    \/ ScoreCheckScaler
    \/ ScoreLoadScaler(ServiceScores)

SpecBoundary == InitBoundary /\ [][NextBoundary]_vars

\* the PumpFailurePredictionModel object on its own: initialize and
\* load_model called on it, over whatever files an earlier process left

\* what _save_model dumps
InitialDump == MaxRetrain + PoolRetrain + 2

\* the step of _save_model that raises (the exception is swallowed):
\* os.makedirs, a joblib.dump before it has opened its file ("open_"), or a
\* joblib.dump half way through writing it ("dump_")
SaveFaults == {"none", "makedirs", "open_model", "dump_model", "open_scaler", "dump_scaler"}

\* the model file and the scaler file as _save_model leaves them
SaveModel(model_file, scaler_file, save) ==
    IF save \in {"makedirs", "open_model"}
    THEN [model |-> model_file, scaler |-> scaler_file]
    ELSE IF save = "dump_model"
    THEN [model |-> Partial(InitialDump), scaler |-> scaler_file]
    ELSE IF save = "open_scaler"
    THEN [model |-> InitialDump, scaler |-> scaler_file]
    ELSE IF save = "dump_scaler"
    THEN [model |-> InitialDump, scaler |-> Partial(InitialDump)]
    ELSE [model |-> InitialDump, scaler |-> InitialDump]

\* initialize(): load_model when the model file exists; otherwise
\* _train_initial_model, which seeds and draws from numpy's generator, and
\* after a successful fit sets is_trained and calls _save_model, which
\* writes the model file and then the scaler file
CallInitialize ==
    \E fault \in InitializeFaults, save \in SaveFaults :
        /\ obj' = InitializeM(obj, detector, scaler, fault)
        /\ IF Exists(detector)
           THEN UNCHANGED <<np_random, detector, scaler>>
           ELSE /\ np_random' = NpRandomDraw(NpRandomSeed(np_random, seed)).next
                /\ IF fault # "none"
                   THEN UNCHANGED <<detector, scaler>>
                   ELSE /\ detector' = SaveModel(detector, scaler, save).model
                        /\ scaler' = SaveModel(detector, scaler, save).scaler
        /\ result_m' = [NotCalledM EXCEPT !.status = "returned"]
        /\ UNCHANGED <<reading, env, result_t>>
        /\ UNCHANGED <<metadata, runs, scores, queue, running, retrainReqs, scoreReqs, views>>
        /\ UNCHANGED <<trainers, corpus, pattern>>

\* load_model(model_path): the object as the call leaves it, raised or not
CallLoadModelM ==
    LET loaded == LoadModelM(obj, detector, scaler)
    IN  /\ obj' = loaded.obj
        /\ result_m' = [NotCalledM EXCEPT !.status =
                           IF loaded.raised THEN "raised" ELSE "returned"]
        /\ UNCHANGED <<reading, env, result_t>>
        /\ UNCHANGED serviceVars
        /\ UNCHANGED trainVars

InitObject ==
    /\ ScoreIdle
    /\ detector \in FilesFound
    /\ scaler \in FilesFound
    /\ metadata = 0
    /\ runs = << >>
    /\ scores = << >>
    /\ queue = << >>
    /\ running = {}
    /\ retrainReqs = << >>
    /\ scoreReqs = << >>
    /\ views = << >>

NextObject == CallInitialize \/ CallLoadModelM

SpecObject == InitObject /\ [][NextObject]_vars

----------------------------------------------------------------------------
(* Claims on the scoring harness *)

InRange(lo, x, hi) == lo <= x /\ x <= hi

\* C1: for every reading with a finite value, of any sensor kind, and every
\* state of the model (no artifact, scaler missing, trained, load or score
\* raising), a scoring call returns a probability in [0,100] and a
\* confidence in [50,95].
C1_ScoreBounded ==
    reading.numeric =>
        /\ result_t.status # "none" =>
              /\ result_t.status = "returned"
              /\ InRange(0, result_t.value, Pct(100))
        /\ result_m.status # "none" =>
              /\ result_m.status = "returned"
              /\ InRange(0, result_m.probabilidade_falha, Pct(100))
              /\ InRange(Pct(50), result_m.confianca, Pct(95))

\* C1 witness: a hot temperature scored by a trained detector whose boosted
\* probability meets the cap, and a model.py result at the confidence cap
C1_Witness ==
    /\ reading.numeric /\ reading.tipo_sensor = "temperatura"
    /\ reading.valor > V(90)
    /\ TakesModelPath(env)
    /\ ToProbability(env.score) * 120 > Pct(100) * 100
    /\ result_t.status = "returned" /\ result_t.value = Pct(100)
    /\ result_m.status = "returned" /\ result_m.confianca = Pct(95)

\* whether some step of the model path fails although a trained model exists
ModelPathFailsT == env.model_exists /\ env.scaler_exists /\ env.fault # "none"
ModelPathFailsM ==
    /\ obj.is_trained /\ obj.model
    /\ (~obj.scaler_fitted \/ env.fault \in {"transform", "decision_function"})

\* C7: when a trained model exists but a step of the model path fails, the
\* scoring call raises nothing and returns exactly the rule-based fallback
\* value for the same (kind, value), in both implementations.
C7_FailureFallsBackToRules ==
    reading.numeric =>
        /\ (ModelPathFailsT /\ result_t.status # "none") =>
              /\ result_t.status = "returned"
              /\ result_t.value = RuleBasedPredictionT(reading).value
        /\ (ModelPathFailsM /\ result_m.status # "none") =>
              /\ result_m.status = "returned"
              /\ result_m.probabilidade_falha =
                     Round2(RuleBasedPredictionM(reading.tipo_sensor, reading.valor))

\* C8: scoring never throws; on a malformed reading (an exception inside the
\* call and inside its fallback) the call returns the conservative default:
\* probability 15.0, tier medium, confidence 50.0, verification advised.
C8_NeverThrowsDefault ==
    /\ result_t.status # "raised"
    /\ result_m.status # "raised"
    /\ ~reading.numeric =>
          /\ result_t.status # "none" => result_t = [status |-> "returned", value |-> Pct(15)]
          /\ result_m.status # "none" =>
                /\ result_m.probabilidade_falha = Pct(15)
                /\ result_m.risco = "medio"
                /\ result_m.confianca = Pct(50)
                /\ result_m.recomendacao = "VERIFICACAO"

\* the reading is of a supported kind and has a numeric value
Supported == reading.numeric /\ reading.tipo_sensor \in SensorKinds

\* predict_failure answers from the rules; the model object is untrained
RulesAnswerT == ~TakesModelPath(env)
RulesAnswerM == ~(obj.is_trained /\ obj.model)

\* C11: for every supported sensor kind and every value greater than or
\* equal to the kind's critical threshold, the rule-based fallback returns
\* exactly 95.0, in training.py and in model.py.
C11_CriticalGives95 ==
    (Supported /\ reading.valor >= sensor_ranges[reading.tipo_sensor].critical) =>
        /\ (RulesAnswerT /\ result_t.status # "none") =>
              result_t = [status |-> "returned", value |-> Pct(95)]
        /\ (RulesAnswerM /\ result_m.status # "none") =>
              result_m.probabilidade_falha = Pct(95)

\* C11 witness: a temperature exactly at the critical threshold, scored by
\* the rules in both implementations
C11_Witness ==
    /\ reading.tipo_sensor = "temperatura" /\ reading.numeric
    /\ reading.valor = V(90)
    /\ RulesAnswerT /\ result_t.status = "returned" /\ result_t.value = Pct(95)
    /\ RulesAnswerM /\ result_m.status = "returned"
    /\ result_m.probabilidade_falha = Pct(95)

\* 70 + 25 * (value - max) / (critical - max)
Interpolation(kind, value) ==
    Pct(70) + (Pct(25) * (value - sensor_ranges[kind].max))
                 \div (sensor_ranges[kind].critical - sensor_ranges[kind].max)

\* the values of the reading's kind that are above max and not above the
\* reading's value
AboveMaxUpToReading ==
    { v \in ValuesOf(reading.tipo_sensor) :
          v > sensor_ranges[reading.tipo_sensor].max /\ v <= reading.valor }

\* C12: above the kind's normal max the rule-based fallback is monotonically
\* non-decreasing in the value: the interpolation
\* 70 + 25*(value-max)/(critical-max) strictly between max and critical, 95.0
\* from critical upward, and no smaller value above max scores higher.
C12_MonotoneAboveMax ==
    (Supported /\ reading.valor > sensor_ranges[reading.tipo_sensor].max) =>
        LET expected ==
                IF reading.valor >= sensor_ranges[reading.tipo_sensor].critical
                THEN Pct(95)
                ELSE Interpolation(reading.tipo_sensor, reading.valor)
        IN  /\ (RulesAnswerT /\ result_t.status # "none") =>
                  /\ result_t.status = "returned"
                  /\ result_t.value = expected
                  /\ \A v1 \in AboveMaxUpToReading :
                        RuleBasedPredictionT([reading EXCEPT !.valor = v1]).value
                            <= result_t.value
            /\ (RulesAnswerM /\ result_m.status # "none") =>
                  /\ result_m.probabilidade_falha = expected
                  /\ \A v1 \in AboveMaxUpToReading :
                        RuleBasedPredictionM(reading.tipo_sensor, v1)
                            <= result_m.probabilidade_falha

\* C12 witness: a vibration half way between max and critical, with smaller
\* values above max to compare with, scored by the rules in both
C12_Witness ==
    /\ reading.tipo_sensor = "vibracao" /\ reading.numeric /\ reading.valor = V(6)
    /\ Cardinality(AboveMaxUpToReading) > 1
    /\ RulesAnswerT /\ result_t.status = "returned"
    /\ result_t.value = Pct(82) + Pct(1) \div 2
    /\ RulesAnswerM /\ result_m.status = "returned"
    /\ result_m.probabilidade_falha = Pct(82) + Pct(1) \div 2

\* riskTier: >= 80 high, >= 40 medium, else low
RiskTier(probability) ==
    IF probability >= Pct(80) THEN "alto"
    ELSE IF probability >= Pct(40) THEN "medio"
    ELSE "baixo"

\* the table entries the scenarios name, and the in-range rule
TableEntry(kind, value) ==
    IF kind = "temperatura" /\ value = V(95) THEN Pct(95)
    ELSE IF kind = "vibracao" /\ value = 25 THEN Pct(10)
    ELSE IF kind = "pressao" /\ value = V(11) THEN Pct(82) + Pct(1) \div 2
    ELSE IF 10 * value > 9 * sensor_ranges[kind].max THEN Pct(40)
    ELSE Pct(10)

\* the (kind, value) pairs C13 speaks of: the three scenarios and every value
\* within [min, max]
InTable(kind, value) ==
    \/ <<kind, value>> \in { <<"temperatura", V(95)>>, <<"vibracao", 25>>,
                             <<"pressao", V(11)>> }
    \/ sensor_ranges[kind].min <= value /\ value <= sensor_ranges[kind].max

\* C13: with no trained model the score of a reading is the rule-based table
\* entry for (kind, value) and the tier is riskTier of that probability:
\* temperature 95.0 gives 95.0/high, vibration 2.5 gives 10.0/low, pressure
\* 11.0 gives 82.5/high; a value in (max*0.9, max] gives 40.0 and any other
\* in-range value 10.0.
C13_NoModelScoresByTable ==
    (Supported /\ InTable(reading.tipo_sensor, reading.valor)) =>
        /\ (~env.model_exists /\ result_t.status # "none") =>
              result_t = [status |-> "returned",
                          value |-> TableEntry(reading.tipo_sensor, reading.valor)]
        /\ (~obj.is_trained /\ result_m.status # "none") =>
              /\ result_m.probabilidade_falha =
                     TableEntry(reading.tipo_sensor, reading.valor)
              /\ result_m.risco = RiskTier(result_m.probabilidade_falha)

\* C13 witness: the pressure scenario, scored with no trained model
C13_Witness ==
    /\ reading = [tipo_sensor |-> "pressao", valor |-> V(11), numeric |-> TRUE]
    /\ ~env.model_exists /\ ~obj.is_trained
    /\ result_t.status = "returned" /\ result_t.value = Pct(82) + Pct(1) \div 2
    /\ result_m.status = "returned" /\ result_m.risco = "alto"

\* the default raw slots of the two vectorizers
DefaultRawT == << V(50), 25, V(5) >>
DefaultRawM == << V(25), V(1), V(2) >>

\* six entries: temperature, vibration, pressure (the reading's value in the
\* slot of its kind, the default in the others), then the three normalized
\* values of those slots, clamped to [0, clamp]
VectorInOrder(vec, defaults, clamp) ==
    /\ Len(vec) = 6
    /\ \A i \in 1 .. 3 :
          /\ vec[i] = IF reading.tipo_sensor = SensorTypes[i]
                      THEN reading.valor ELSE defaults[i]
          /\ vec[i + 3] =
                 Max(0, Min(clamp,
                     ((vec[i] - sensor_ranges[SensorTypes[i]].min) * N(1))
                        \div (sensor_ranges[SensorTypes[i]].max
                                - sensor_ranges[SensorTypes[i]].min)))

\* C15: for every reading the feature vector has exactly 6 entries in the
\* fixed order (temperature, vibration, pressure, then their three
\* normalized values); for an unsupported sensor kind all three raw slots
\* keep their default values.  Both implementations.
C15_VectorOfSix ==
    reading.numeric =>
        /\ result_t.status # "none" =>
              /\ result_t.status = "returned"
              /\ VectorInOrder(result_t.value, DefaultRawT, N(25) \div 10)
              /\ reading.tipo_sensor \notin SensorKinds =>
                    SubSeq(result_t.value, 1, 3) = DefaultRawT
        /\ result_m.status # "none" =>
              /\ result_m.status = "returned"
              /\ VectorInOrder(result_m.value, DefaultRawM, N(2))
              /\ reading.tipo_sensor \notin SensorKinds =>
                    SubSeq(result_m.value, 1, 3) = DefaultRawM

\* C15 witness: a reading of an unsupported kind vectorized by both
C15_Witness ==
    /\ reading.numeric /\ reading.tipo_sensor = "fluxo" /\ reading.valor = V(5)
    /\ result_t.status = "returned" /\ Len(result_t.value) = 6
    /\ result_m.status = "returned" /\ Len(result_m.value) = 6

\* two train_model calls with the same arguments, one after the other, both
\* over
SuccessivePair(i, k) ==
    /\ i < k
    /\ trainers[i].pc = "returned" /\ trainers[k].pc = "returned"
    /\ trainers[i].n_samples = trainers[k].n_samples
    /\ trainers[i].contamination = trainers[k].contamination

\* the call came as far as fitting the corpus it generated
Generated(t) == t.indices # << >>

\* C17: two successive train_model runs with the same (sampleCount,
\* contamination) generate the same training corpus and return the same
\* anomaly ratio and the same accuracy estimate, whatever state numpy's
\* generator was in before the first and was left in by it.  (A run in
\* which a step raised returns no ratio and no estimate.)
C17_SuccessiveRunsAgree ==
    \A i, k \in DOMAIN trainers :
        SuccessivePair(i, k) =>
            /\ (Generated(trainers[i]) /\ Generated(trainers[k])) =>
                    /\ trainers[i].X = trainers[k].X
                    /\ trainers[i].indices = trainers[k].indices
            /\ (trainers[i].result.status = "success"
                    /\ trainers[k].result.status = "success") =>
                    /\ trainers[i].result = trainers[k].result
                    /\ trainers[i].result.anomaly_ratio =
                           AnomalyRatio(trainers[i].predictions)

\* C17 witness: two successive runs with the same arguments, whose corpus
\* holds normal and anomaly patterns, have both returned success, the
\* second one starting from another state of the generator than the first
C17_Witness ==
    /\ SuccessivePair(1, 2)
    /\ trainers[1].result.status = "success" /\ trainers[2].result.status = "success"
    /\ NAnomalies(trainers[2].n_samples, trainers[2].contamination) > 0
    /\ Len(trainers[2].X) = trainers[2].n_samples
    /\ trainers[2].result.anomaly_ratio > 0
    /\ detector = 2 /\ scaler = 2 /\ metadata = 2

\* C20: absence of a single artifact is recoverable: with the detector
\* missing, or with only the scaler missing, scoring returns the rule-based
\* result; and loading never leaves the engine in a partially loaded state
\* that it treats as trained (a model object that is_trained holds both the
\* detector and a fitted scaler when it scores).
C20_NoPartialLoad ==
    /\ (reading.numeric /\ result_t.status # "none"
            /\ (~env.model_exists \/ ~env.scaler_exists)) =>
          /\ result_t.status = "returned"
          /\ result_t.value = RuleBasedPredictionT(reading).value
    /\ (result_m.status # "none" /\ obj.is_trained) =>
          (obj.model /\ obj.scaler_fitted)

\* the factor adjustForSensor applies, in hundredths
BoostFactor(kind, value) ==
    IF kind = "temperatura" /\ value > V(85) THEN 120
    ELSE IF kind = "temperatura" /\ value < V(15) THEN 110
    ELSE IF kind = "vibracao" /\ value > V(6) THEN 130
    ELSE IF kind = "vibracao" /\ 10 * value > V(45) /\ value <= V(6) THEN 110
    ELSE IF kind = "pressao" /\ value > V(11) THEN 125
    ELSE IF kind = "pressao" /\ value < V(1) THEN 115
    ELSE 100

\* C24: adjustForSensor(kind, value, p) returns min(100, p * f), with f = 1.2
\* for temperature > 85, 1.1 for temperature < 15, 1.3 for vibration > 6, 1.1
\* for vibration in (4.5, 6], 1.25 for pressure > 11, 1.15 for pressure < 1
\* and 1 otherwise; so for every p in [0,100] the result is >= p and <= 100.
\* (Seen through predict_failure, which rounds what adjustForSensor returns
\* to two decimals.)
C24_AdjustBoostsOnly ==
    (reading.numeric /\ TakesModelPath(env) /\ result_t.status # "none") =>
        LET p == ToProbability(env.score)
            f == BoostFactor(reading.tipo_sensor, reading.valor)
        IN  /\ result_t.status = "returned"
            /\ result_t.value = Round2(Min(Pct(100), (p * f) \div 100))
            /\ Round2(p) <= result_t.value /\ result_t.value <= Pct(100)

\* C24 witness: an elevated vibration, 6.0, boosted by 1.1 from 50 to 55
C24_Witness ==
    /\ reading = [tipo_sensor |-> "vibracao", valor |-> V(6), numeric |-> TRUE]
    /\ TakesModelPath(env) /\ ToProbability(env.score) = Pct(50)
    /\ result_t.status = "returned" /\ result_t.value = Pct(55)

\* clamp(50, 95, 85 + a + b) as C25 states it
ClaimedConfidence(kind, value, probability) ==
    LET a == IF /\ kind \in SensorKinds
                /\ \/ value >= sensor_ranges[kind].critical
                   \/ 10 * value < 5 * sensor_ranges[kind].min
             THEN Pct(10) ELSE 0
        b == IF probability > Pct(90) \/ probability < Pct(10) THEN Pct(5)
             ELSE IF Pct(40) <= probability /\ probability <= Pct(60) THEN 0 - Pct(10)
             ELSE 0
    IN  Max(Pct(50), Min(Pct(95), Pct(85) + a + b))

\* C25: confidence(kind, value, probability) equals clamp(50, 95, 85 + a + b)
\* where a = 10 exactly when the kind is supported and the value is at or
\* beyond critical (value >= critical) or below min*0.5, else 0, and b = +5
\* when probability > 90 or < 10, -10 when it is in [40,60], else 0.
\* The probability is the one the call computed before rounding it for the
\* response: the calibrated score on the model path, the rule value otherwise.
C25_ConfidenceFormula ==
    (reading.numeric /\ ~ModelPathFailsM /\ result_m.status # "none") =>
        LET probability == IF obj.is_trained /\ obj.model
                           THEN ToProbability(env.score)
                           ELSE result_m.probabilidade_falha
        IN  result_m.confianca =
                ClaimedConfidence(reading.tipo_sensor, reading.valor, probability)

\* C26: riskTier(p) is high exactly when p >= 80, medium exactly when
\* 40 <= p < 80 and low exactly when p < 40; so a critical recommendation
\* (p >= 90) only occurs with tier high and a normal-operation recommendation
\* (p < 40) only with tier low.  Stated of every result that riskTier and
\* the recommendation bands produced (not the fixed default of the except
\* branch).
C26_TierMatchesBand ==
    (result_m.status # "none" /\ result_m.recomendacao # "VERIFICACAO") =>
        LET p == result_m.probabilidade_falha
        IN  /\ (result_m.risco = "alto") <=> (p >= Pct(80))
            /\ (result_m.risco = "medio") <=> (Pct(40) <= p /\ p < Pct(80))
            /\ (result_m.risco = "baixo") <=> (p < Pct(40))
            /\ (result_m.recomendacao = "CRITICO") <=> (p >= Pct(90))
            /\ (result_m.recomendacao = "NORMAL") <=> (p < Pct(40))
            /\ result_m.recomendacao = "CRITICO" => result_m.risco = "alto"
            /\ result_m.recomendacao = "NORMAL" => result_m.risco = "baixo"

\* C26 witness: a detector score giving p = 75, attention band, tier medium
C26_Witness ==
    /\ reading.numeric /\ obj = LoadedModelObject(TRUE) /\ env.fault = "none"
    /\ result_m.status = "returned"
    /\ result_m.probabilidade_falha = Pct(75)
    /\ result_m.risco = "medio" /\ result_m.recomendacao = "ATENCAO"

\* the values on which the two fallbacks are said to differ:
\* min*0.6 <= value < min*0.8 of a kind whose min is positive
InLowBand(kind, value) ==
    /\ kind \in SensorKinds
    /\ sensor_ranges[kind].min > 0
    /\ 6 * sensor_ranges[kind].min <= 10 * value
    /\ 10 * value < 8 * sensor_ranges[kind].min

\* C27: the rule-based fallbacks of model.py and training.py return the same
\* value for every (kind, value), except for min*0.6 <= value < min*0.8 of a
\* kind with positive min (temperature, 12 <= value < 16), where model.py
\* returns 60.0 and training.py 10.0; vibration and pressure always agree.
C27_FallbacksAgreeButLowBand ==
    (reading.numeric /\ RulesAnswerT /\ RulesAnswerM
        /\ result_t.status # "none" /\ result_m.status # "none") =>
        /\ result_t.status = "returned"
        /\ IF InLowBand(reading.tipo_sensor, reading.valor)
           THEN /\ reading.tipo_sensor = "temperatura"
                /\ V(12) <= reading.valor /\ reading.valor < V(16)
                /\ result_m.probabilidade_falha = Pct(60)
                /\ result_t.value = Pct(10)
           ELSE result_t.value = result_m.probabilidade_falha

\* C27 witness: temperature 14.0 scored by both fallbacks
C27_Witness ==
    /\ reading = [tipo_sensor |-> "temperatura", valor |-> V(14), numeric |-> TRUE]
    /\ RulesAnswerT /\ RulesAnswerM
    /\ result_t.status = "returned" /\ result_t.value = Pct(10)
    /\ result_m.status = "returned" /\ result_m.probabilidade_falha = Pct(60)

\* the midpoints of the normal ranges: 50, 2.5, 5
MidpointRaw ==
    [i \in 1 .. 3 |->
        (sensor_ranges[SensorTypes[i]].min + sensor_ranges[SensorTypes[i]].max) \div 2]

\* C28: at inference the raw slots of the kinds not present in the reading
\* hold the midpoint of that kind's normal range (50, 2.5, 5) and each
\* normalized slot is (raw - min)/(max - min) clamped to [0, 2.0], in both
\* implementations.
C28_MidpointDefaultsClampTwo ==
    reading.numeric =>
        /\ result_t.status # "none" =>
              /\ result_t.status = "returned"
              /\ VectorInOrder(result_t.value, MidpointRaw, N(2))
        /\ result_m.status # "none" =>
              /\ result_m.status = "returned"
              /\ VectorInOrder(result_m.value, MidpointRaw, N(2))

\* how many entries of a sequence equal e
CountOf(q, e) == Cardinality({k \in DOMAIN q : q[k] = e})

\* the anomalous vectors of a sequence
AnomalousIn(q) == {k \in DOMAIN q : q[k].anomalous}

\* C29: generate(sampleCount, contamination) returns exactly sampleCount
\* vectors, of which floor(sampleCount * contamination) are anomalous and
\* the rest normal, and the returned sequence is a permutation of the
\* normal vectors followed by the anomalous ones.
C29_CorpusCountsAndPermutation ==
    corpus.pc = "returned" =>
        LET floor == (corpus.n_samples * corpus.contamination) \div 1000
        IN  /\ Len(corpus.returned) = corpus.n_samples
            /\ Cardinality(AnomalousIn(corpus.returned)) = floor
            /\ AnomalousIn(corpus.X) =
                   (corpus.n_samples - floor + 1) .. corpus.n_samples
            /\ Len(corpus.X) = Len(corpus.returned)
            /\ \A k \in DOMAIN corpus.X :
                   CountOf(corpus.returned, corpus.X[k]) = CountOf(corpus.X, corpus.X[k])

\* lo < x < hi
Between(lo, x, hi) == lo < x /\ x < hi

\* C30: a normal vector has every raw feature in [min, max] and every
\* normalized feature in [0, 1]; an anomalous vector has every raw feature
\* in (max * 1.1, critical), (min * 0.2, min * 0.7) or (max * 0.85, max),
\* the high and low extremes outside [min, max], and every normalized
\* feature (raw - min) / (max - min) clamped to [0, 3.0].
C30_GeneratedRanges ==
    \A i \in 1 .. 3 :
        LET ranges == RangesOf(PatternKinds[i])
            raw == pattern.features[i]
            normalized == pattern.features[i + 3]
            ratio == ((raw - ranges.min) * N(1)) \div (ranges.max - ranges.min)
        IN  /\ pattern.generator = "normal" =>
                /\ ranges.min <= raw /\ raw <= ranges.max
                /\ 0 <= normalized /\ normalized <= N(1)
            /\ pattern.generator = "anomaly" =>
                /\ pattern.draws[i].branch = "high" =>
                       /\ Between((ranges.max * 11) \div 10, raw, ranges.critical)
                       /\ raw > ranges.max
                /\ pattern.draws[i].branch = "low" =>
                       /\ Between((ranges.min * 2) \div 10, raw, (ranges.min * 7) \div 10)
                       /\ raw < ranges.min
                /\ pattern.draws[i].branch = "elevated" =>
                       Between((ranges.max * 85) \div 100, raw, ranges.max)
                /\ normalized = Max(0, Min(N(3), ratio))

----------------------------------------------------------------------------
(* Claims on the service *)

\* HTTP response bodies, by the keys they carry
ResponseKeys(code) ==
    IF code = 200
    THEN {"message", "status", "accuracy_estimate", "training_samples",
          "contamination", "timestamp"}
    ELSE IF code = 400 THEN {"error"}
    ELSE {"error", "details"}

\* C2: whatever the interleaving of a predict_failure call with a train_model
\* run that replaces an existing artifact set, the detector and the scaler
\* the call loads and uses come from the same training run.
C2_NoTornRead ==
    \A j \in DOMAIN scores :
        (scores[j].pc = "returned" /\ scores[j].path = "model")
            => scores[j].model = scores[j].scaler

\* C3: if a train_model run fails at any step, the persisted detector, scaler
\* and metadata are afterwards exactly those in place before it started (here
\* the set of run 1, which run 2 set out to replace).
C3_FailedRunLeavesStore ==
    \A i \in DOMAIN runs :
        (i = 2 /\ runs[i].pc = "returned" /\ runs[i].outcome # "success")
            => (detector = 1 /\ scaler = 1 /\ metadata = 1)

WritesFileOf(i, file_before, file_after) ==
    file_after # file_before /\ file_after \in {i, Partial(i)}

\* C4: once the caller of a retrain request has been told that it timed out
\* (408), no artifact of that training run is written at any later time.
C4_TimedOutRunWritesNothing ==
    [][ \A i \in DOMAIN retrainReqs :
            (retrainReqs[i].state = "timed_out" /\ retrainReqs[i].code = 408)
                => /\ ~WritesFileOf(i, detector, detector')
                   /\ ~WritesFileOf(i, scaler, scaler')
                   /\ ~WritesFileOf(i, metadata, metadata') ]_vars

\* every executor worker is held by a training run
WorkersAllTraining ==
    /\ Cardinality(running) = max_workers
    /\ \A task \in running : task.kind = "train"

\* C5: retraining runs apart from scoring: however many retrains are in
\* progress, a scoring request that arrives starts without waiting for one of
\* them to finish, and is not answered with a timeout while it waits.
C5_ScoringNeverWaitsForRetrain ==
    \A j \in DOMAIN scores :
        scores[j].pc = "queued" => ~WorkersAllTraining

\* C6: after any interleaving of two concurrent train_model runs has
\* completed, the persisted detector, scaler and metadata come from one run.
C6_SingleWriter ==
    (\A i \in DOMAIN runs : runs[i].pc = "returned" /\ runs[i].outcome = "success")
        => (detector = scaler /\ scaler = metadata)

\* whether the parameters are outside sampleCount in [1000,50000] (an int)
\* and contamination in [0.01,0.2] (a number)
OutsideRetrainContract(body) ==
    \/ body.n_type # "int" \/ body.n_samples < 1000 \/ body.n_samples > 50000
    \/ body.c_type # "num" \/ body.contamination < 10 \/ body.contamination > 200

\* C9: a retrain request whose sampleCount or contamination is outside the
\* contract is rejected before training starts with a failure result carrying
\* success=false; train_model is never invoked for it.
C9_InvalidRetrainRejected ==
    \A i \in DOMAIN retrainReqs :
        (retrainReqs[i].state # "none" /\ OutsideRetrainContract(retrainReqs[i].body))
            => /\ retrainReqs[i].state = "done"
               /\ retrainReqs[i].code = 400
               /\ "success" \in ResponseKeys(retrainReqs[i].code)
               /\ runs[i].pc = "none"

\* C10: every status view (/health, /api/model/status) reports loaded and
\* trained as true exactly when a score call in that state would take the
\* model path rather than the rule-based fallback.
C10_StatusMatchesScoring ==
    [][ views'.polls # views.polls =>
            /\ views'.loaded = TakesModelPath(StoreNow)
            /\ views'.trained = TakesModelPath(StoreNow) ]_vars

\* the body of a POST /api/predicoes response: on 200, on a validation 400,
\* and on the other errors
ScoreResponseKeys(code, rejected) ==
    IF code = 200 THEN {"probabilidade_falha", "timestamp"}
    ELSE IF rejected THEN {"error"}
    ELSE {"error", "details"}

\* a scoring request that is well formed but for its sensor kind
OnlyKindUnknown(body) ==
    /\ body.is_json /\ body.has_fields /\ body.sensor_id_ok /\ body.numeric
    /\ body.timestamp_ok
    /\ body.tipo_sensor \notin SensorKinds

\* C14: a reading whose sensor kind is not temperature, vibration or
\* pressure is accepted at the boundary and scored without any error, and
\* its probability is the flat moderate default 15.0.
C14_UnknownKindScoredFlat ==
    \A j \in DOMAIN scoreReqs :
        (scoreReqs[j].state = "done" /\ OnlyKindUnknown(scoreReqs[j].body)) =>
            /\ scoreReqs[j].code = 200
            /\ scoreReqs[j].probabilidade_falha = Pct(15)

\* C16: every successful score response carries all four ScoreResult fields:
\* probability, risk tier, recommendation and confidence.
C16_ScoreResultComplete ==
    \A j \in DOMAIN scoreReqs :
        (scoreReqs[j].state = "done" /\ scoreReqs[j].code = 200) =>
            {"probabilidade_falha", "risco", "recomendacao", "confianca"}
                \subseteq ScoreResponseKeys(scoreReqs[j].code,
                                            ScoreBodyRejected(scoreReqs[j].body))

\* C18: train_model always ends with a result and never raises: whatever
\* fails (creating the models directory, generation, fitting, persisting),
\* the call returns {success: true, ...} or {success: false, error}.
C18_TrainNeverRaises ==
    \A i \in DOMAIN runs :
        runs[i].pc = "returned" => runs[i].outcome \in {"success", "failed"}

\* no train_model call is queued or under way
NoRetrainUnderWay == \A i \in DOMAIN runs : runs[i].pc \in {"none", "returned"}

\* C19: once a train_model run has returned success, no sequence of retrains
\* (successful or failed) takes the engine from Trained back to NoModel:
\* with no retrain under way, load reports loaded=true and a score call
\* takes the model path instead of the rule-based fallback.
C19_TrainedStaysTrained ==
    (NoRetrainUnderWay /\ \E i \in DOMAIN runs : runs[i].outcome = "success") =>
        /\ LoadModel.loaded
        /\ TakesModelPath(StoreNow)

\* the request is one the engine may be invoked for
ValidatedReading(body) ==
    /\ body.is_json /\ body.has_fields /\ body.sensor_id_ok
    /\ body.tipo_sensor \in SensorKinds
    /\ body.shape = "object" /\ body.overflow = "none"
    /\ body.numeric /\ IsFinite(body.valor)
    /\ body.timestamp_ok

\* C21: the engine's score operation is invoked only for requests whose
\* sensor kind is supported, whose value is a finite real number and whose
\* timestamp parses; every other request is rejected with a 400 error and
\* never reaches the engine.
C21_OnlyValidatedReachEngine ==
    \A j \in DOMAIN scoreReqs :
        (scoreReqs[j].state # "none" /\ ~ValidatedReading(scoreReqs[j].body)) =>
            /\ scoreReqs[j].state = "done" /\ scoreReqs[j].code = 400
            /\ scores[j].pc = "none"

\* C22: a scoring call that has not finished within the 1.8 s timeout ends
\* the request with a timeout error, HTTP 408, and the artifacts stay as
\* they were.
C22_ScoreTimeoutIs408 ==
    \A j \in DOMAIN scoreReqs :
        scoreReqs[j].state = "timed_out" =>
            /\ scoreReqs[j].code = 408
            /\ detector = 1 /\ scaler = 1 /\ metadata = 1

\* the predict_failure calls that have loaded the detector file
DetectorLoads == { j \in DOMAIN scores : scores[j].model # 0 }

\* C23: a trained model is loaded from the artifact store at most once per
\* process between retrains: with no retrain in between, the number of
\* detector loads does not grow with the number of score calls.
C23_LoadedOnce == Cardinality(DetectorLoads) <= 1

====
